---- MODULE Spec2Model ----
(***************************************************************************)
(* Model of the BFPS multiplayer server (src/MultiplayerServer): the room  *)
(* registry, the connection lifecycle with persistent tokens and grace     *)
(* timers, and the per-message handlers.  Every handler runs to completion *)
(* (Node's single-threaded event loop), so each handler is one action.     *)
(*                                                                         *)
(* Lengths are integers in units of 0.05 world units, so that every length *)
(* constant of the code (0.05, 0.15, 0.3, 0.4, 0.8, 3.0, 6) is an integer. *)
(***************************************************************************)
EXTENDS Integers, Sequences, FiniteSets, TLC

VARIABLES
    sockets,          \* socket id -> [persistentId, connected]; ids are 1..Len(sockets)
    rooms,            \* server.js `rooms`: roomId -> Room
    nextRoomId,       \* room.js `nextRoomId`
    playerRooms,      \* server.js `playerRooms`: socketId -> roomId
    playerNames,      \* server.js `playerNames`: socketId -> name
    disconnectTimers, \* server.js `disconnectTimers`: pid -> Timeout (named by its socket)
    timers,           \* pending setTimeout callbacks of the disconnect handler, by socket
    channels,         \* socket.io room membership: socketId -> set of roomIds joined
    nMoves,           \* number of accepted move requests so far (bounded)
    emitted,          \* the messages the last handler emitted, in order
    last,             \* the branch the last handler took, for which socket, and the
                      \* creator hand-overs it made
    call              \* a call of generateMaze, _pickSpacedSpawns or isBlocked on its
                      \* own: its arguments, the state of its loop, its result

vars == <<sockets, rooms, nextRoomId, playerRooms, playerNames, disconnectTimers,
          timers, channels, nMoves, emitted, last, call>>

----------------------------------------------------------------------------
(* Bounds of the model *)

MaxSockets == 3
MaxRooms == 1
LobbySockets == 2
LobbyRooms == 2
GameSockets == 2
GameRooms == 1
MaxMoves == 2
MaxSeed == 1
FightSockets == 2
FightRooms == 1
MaxScore == 10
MaxPending == 1
RespawnSockets == 3
LevelSockets == 2
ExitSockets == 1
GuardSockets == 2
TokenSockets == 3
FullSockets == 3
FullRooms == 1
TokenRooms == 2
GuardRooms == 1
GuardScore == 3
GuardMoves == 1
ExitRooms == 1
ExitMoves == 3
LevelRooms == 1
RespawnRooms == 2
PairSockets == 2
PairRooms == 1
BossSockets == 3
BossRooms == 1
MaxNpcScore == 51
MaxMazeSide == 4

(* Program constants; lengths in units of 0.05: 6 is 120, 0.15 is 3, 0.4 is 8,
   3.0 is 60, 2 is 40 *)

CELL_SIZE == 120
WALL_THICKNESS == 3
SPAWN_SPACING == 5
MoveRadius == 8
MaxMoveDist == 60
DefaultY == 40
MaxPlayersCap == 16
DefaultMaxPlayers == 8
NameMaxLen == 20
RoomNameMaxLen == 30
NullId == 0
SCORE_PLAYER_KILL == 10
SCORE_BOSS_KILL == 50
SCORE_NPC_KILL == 3
(* raycastPlayers: step 0.3, hitRadius 0.8, the 1.5 under and the 0.5 over the
   target's y, the 0.05 of the wall occlusion check; the 3000 ms of the respawn
   after a kill are two units of 1500 ms *)
RayStep == 6
HitRadius == 16
HitBelow == 30
HitAbove == 10
OcclusionRadius == 1
RespawnDelay == 2

(* samples of a ray the model evaluates at a time *)
RayBlock == 8

Tokens == {"t1"}
Undefined == "undefined"
Null == "null"

SockIds == 1..MaxSockets
\* the connections that send setName
NamingSockets == {1}
Seeds == 0..MaxSeed

(* What a client may send *)
QueryPids == {"", "t1"}
NoToken == {""}
NameInputs == {<<"A", "l">>}
RoomNameInputs == {<<>>}
MaxPlayersInputs == {1, 3}
ArenaInputs == {FALSE, TRUE}
\* createRoom's maxPlayers where the room size is not what varies
WideMaxPlayers == {3}
PairMaxPlayers == {2}
NpcHunters == {2, 3}

----------------------------------------------------------------------------
(* Helpers for JavaScript Maps *)

MapSet(m, k, v) == [x \in DOMAIN m \cup {k} |-> IF x = k THEN v ELSE m[x]]

MapDel(m, k) == [x \in DOMAIN m \ {k} |-> m[x]]

EmptyMap == [x \in {} |-> 0]

Min(a, b) == IF a < b THEN a ELSE b

FloorDiv(a, b) == a \div b

Max(a, b) == IF a > b THEN a ELSE b

RECURSIVE SortedSeq(_)
SortedSeq(S) ==
    IF S = {} THEN <<>>
    ELSE LET m == CHOOSE x \in S : \A y \in S : x <= y
         IN <<m>> \o SortedSeq(S \ {m})

----------------------------------------------------------------------------
(* room.js: class Room *)

NoMaze == [rows |-> 0, cols |-> 0, grid |-> <<>>]

NoCell == [r |-> -1, c |-> -1]

(* The `name || 'Player'` and `name || 'Game Room'` defaults: an empty string is falsy *)
OrDefault(name, dflt) == IF name = <<>> THEN dflt ELSE name

Substring(name, n) == SubSeq(name, 1, Min(Len(name), n))

PlayerDefaultName == <<"P", "l", "a", "y", "e", "r">>

RoomDefaultName == <<"G", "a", "m", "e", " ", "R", "o", "o", "m">>

(* constructor(name, maxPlayers, creatorId), with the id the caller's counter gives *)
NewRoom(id, name, maxPlayers, creatorId) ==
    [id |-> id,
     name |-> name,
     maxPlayers |-> IF maxPlayers = 0 THEN DefaultMaxPlayers ELSE maxPlayers,
     creatorId |-> creatorId,
     players |-> <<>>,
     state |-> "waiting",
     currentLevel |-> 0,
     flatArena |-> FALSE,
     maze |-> NoMaze,
     startCell |-> NoCell,
     exitCell |-> NoCell,
     respawnQueue |-> <<>>,
     playerEnemies |-> EmptyMap]

PlayerIds(room) == {room.players[i].id : i \in DOMAIN room.players}

HasPlayer(room, id) == id \in PlayerIds(room)

IndexOf(room, id) == CHOOSE i \in DOMAIN room.players : room.players[i].id = id

GetPlayer(room, id) == room.players[IndexOf(room, id)]

(* Map.set on the roster: a new key goes last, an existing key keeps its place *)
RosterSet(players, id, p) ==
    IF \E i \in DOMAIN players : players[i].id = id
    THEN [i \in DOMAIN players |-> IF players[i].id = id THEN p ELSE players[i]]
    ELSE Append(players, p)

RosterDelete(players, id) == SelectSeq(players, LAMBDA p : p.id # id)

(* addPlayer(id, name, weapon): a fourth argument, which the callers pass, is not a
   parameter of the method and is dropped; the record has no persistentId of its own *)
AddPlayer(room, id, name, weapon, persistentId) ==
    LET player == [id |-> id,
                   name |-> OrDefault(name, PlayerDefaultName),
                   x |-> 0, y |-> DefaultY, z |-> 0,
                   yaw |-> 0, pitch |-> 0,
                   health |-> 100, score |-> 0, deaths |-> 0,
                   weapon |-> weapon,
                   sprinting |-> FALSE,
                   alive |-> TRUE,
                   level |-> 0,
                   persistentId |-> Undefined,
                   exitTriggered |-> FALSE]
    IN [room EXCEPT !.playerEnemies = MapSet(@, id, EmptyMap),
                    !.players = RosterSet(@, id, player)]

(* removePlayer handing the room to the latest-joined remaining player; C8 tells it
   from RemovePlayer *)
RemovePlayerLatest(room, id) ==
    LET remaining == RosterDelete(room.players, id)
    IN [room EXCEPT !.players = remaining,
                    !.creatorId = IF id = room.creatorId
                                  THEN (IF Len(remaining) > 0
                                        THEN remaining[Len(remaining)].id ELSE NullId)
                                  ELSE @]

RemovePlayer(room, id) ==
    LET remaining == RosterDelete(room.players, id)
    IN [room EXCEPT !.players = remaining,
                    !.creatorId = IF id = room.creatorId
                                  THEN (IF Len(remaining) > 0 THEN remaining[1].id ELSE NullId)
                                  ELSE @]

(* isEmpty that is never true; C7 tells it from IsEmpty *)
IsEmptyNever(room) == FALSE

IsEmpty(room) == Len(room.players) = 0

GetInfo(room) ==
    [id |-> room.id,
     name |-> room.name,
     playerCount |-> Len(room.players),
     maxPlayers |-> room.maxPlayers,
     state |-> room.state,
     creatorId |-> room.creatorId,
     flatArena |-> room.flatArena]

GetGameState(room) ==
    [players |-> [i \in DOMAIN room.players |->
        LET p == room.players[i]
        IN [id |-> p.id, name |-> p.name, x |-> p.x, y |-> p.y, z |-> p.z,
            yaw |-> p.yaw, pitch |-> p.pitch, health |-> p.health, score |-> p.score,
            deaths |-> p.deaths, weapon |-> p.weapon, alive |-> p.alive]]]

----------------------------------------------------------------------------
(* Math.random(): the handler that draws takes a seed from Seeds, and its k-th
   call of Math.floor(Math.random() * n) returns RandomIndex(seed, k, n), a value
   of 0..n-1; every such sequence of values is one the real generator can give *)
RandomIndex(seed, k, n) == ((seed + 1) * (k + 3) * (k + 7) + k) % n

----------------------------------------------------------------------------
(* maze.js *)

DIRS == << [name |-> "north", dr |-> -1, dc |-> 0, opposite |-> "south"],
           [name |-> "south", dr |-> 1, dc |-> 0, opposite |-> "north"],
           [name |-> "east", dr |-> 0, dc |-> 1, opposite |-> "west"],
           [name |-> "west", dr |-> 0, dc |-> -1, opposite |-> "east"] >>

ClosedCell == [north |-> FALSE, south |-> FALSE, east |-> FALSE, west |-> FALSE]

OpenCell == [north |-> TRUE, south |-> TRUE, east |-> TRUE, west |-> TRUE]

(* generateMaze before its loop: all walls closed, (0,0) visited and on the stack *)
MazeStart(rows, cols) ==
    [grid |-> [r \in 0..(rows - 1) |-> [c \in 0..(cols - 1) |-> ClosedCell]],
     visited |-> {<<0, 0>>},
     stack |-> << <<0, 0>> >>]

(* the unvisited neighbours of the cell on top of the stack, in DIRS order *)
Neighbours(rows, cols, st) ==
    LET top == st.stack[Len(st.stack)]
        Ok(d) == /\ top[1] + d.dr >= 0 /\ top[1] + d.dr < rows
                 /\ top[2] + d.dc >= 0 /\ top[2] + d.dc < cols
                 /\ <<top[1] + d.dr, top[2] + d.dc>> \notin st.visited
    IN SelectSeq(DIRS, Ok)

(* an iteration that knocks down the wall on the side of the current cell only *)
MazeStepOneSided(rows, cols, st, pick) ==
    LET ns == Neighbours(rows, cols, st)
        top == st.stack[Len(st.stack)]
    IN IF Len(ns) = 0
       THEN [st EXCEPT !.stack = SubSeq(@, 1, Len(@) - 1)]
       ELSE LET d == ns[pick + 1]
                nr == top[1] + d.dr
                nc == top[2] + d.dc
            IN [grid |-> [st.grid EXCEPT ![top[1]][top[2]][d.name] = TRUE],
                visited |-> st.visited \cup {<<nr, nc>>},
                stack |-> Append(st.stack, <<nr, nc>>)]

(* one iteration of the loop: pop when there is no neighbour, else carve to
   neighbours[pick] and push it *)
MazeStep(rows, cols, st, pick) ==
    LET ns == Neighbours(rows, cols, st)
        top == st.stack[Len(st.stack)]
    IN IF Len(ns) = 0
       THEN [st EXCEPT !.stack = SubSeq(@, 1, Len(@) - 1)]
       ELSE LET d == ns[pick + 1]
                nr == top[1] + d.dr
                nc == top[2] + d.dc
            IN [grid |-> [st.grid EXCEPT ![top[1]][top[2]][d.name] = TRUE,
                                          ![nr][nc][d.opposite] = TRUE],
                visited |-> st.visited \cup {<<nr, nc>>},
                stack |-> Append(st.stack, <<nr, nc>>)]

(* one iteration of `while (stack.length > 0)`, drawing the k-th random number of the
   handler when there is a neighbour to pick; nothing once the stack is empty *)
MazeIter(rows, cols, sk, seed) ==
    IF Len(sk.st.stack) = 0 THEN sk
    ELSE LET n == Len(Neighbours(rows, cols, sk.st))
         IN IF n = 0
            THEN [sk EXCEPT !.st = MazeStep(rows, cols, sk.st, 0)]
            ELSE [st |-> MazeStep(rows, cols, sk.st, RandomIndex(seed, sk.k, n)),
                  k |-> sk.k + 1]

(* n iterations of the loop (halving keeps the evaluation shallow) *)
RECURSIVE MazeLoop(_, _, _, _, _)
MazeLoop(rows, cols, sk, seed, n) ==
    IF n = 0 THEN sk
    ELSE IF n = 1 THEN MazeIter(rows, cols, sk, seed)
    ELSE LET half == MazeLoop(rows, cols, sk, seed, n \div 2)
         IN IF half.k >= 0
            THEN MazeLoop(rows, cols, half, seed, n - (n \div 2))
            ELSE half

GenerateMaze(rows, cols, seed, k0) ==
    (* every cell is pushed once and popped once: 2 * rows * cols iterations empty the stack *)
    [grid |-> MazeLoop(rows, cols, [st |-> MazeStart(rows, cols), k |-> k0], seed,
                       2 * rows * cols).st.grid,
     rows |-> rows,
     cols |-> cols]

(* the all-open grid of a flat arena (room.js startGame and advancePlayerLevel) *)
ArenaMaze(rows, cols) ==
    [grid |-> [r \in 0..(rows - 1) |-> [c \in 0..(cols - 1) |-> OpenCell]],
     rows |-> rows,
     cols |-> cols]

----------------------------------------------------------------------------
(* collision.js *)

(* one cell of isBlocked's double loop: out of the grid, or one of its closed walls
   meets the square of half-side `radius` around (x, z) *)
CellBlocks(maze, r, c, x, z, radius) ==
    IF r < 0 \/ r >= maze.rows \/ c < 0 \/ c >= maze.cols THEN TRUE
    ELSE LET cell == maze.grid[r][c]
             cellLeft == c * CELL_SIZE
             cellRight == (c + 1) * CELL_SIZE
             cellTop == r * CELL_SIZE
             cellBottom == (r + 1) * CELL_SIZE
         IN \/ /\ ~cell.north
               /\ z - radius < cellTop
               /\ z + radius > cellTop - WALL_THICKNESS
               /\ x + radius > cellLeft
               /\ x - radius < cellRight
            \/ /\ ~cell.south
               /\ z + radius > cellBottom
               /\ z - radius < cellBottom + WALL_THICKNESS
               /\ x + radius > cellLeft
               /\ x - radius < cellRight
            \/ /\ ~cell.west
               /\ x - radius < cellLeft
               /\ x + radius > cellLeft - WALL_THICKNESS
               /\ z + radius > cellTop
               /\ z - radius < cellBottom
            \/ /\ ~cell.east
               /\ x + radius > cellRight
               /\ x - radius < cellRight + WALL_THICKNESS
               /\ z + radius > cellTop
               /\ z - radius < cellBottom

(* an isBlocked that looks at the cells of the grid only *)
IsBlockedInGrid(maze, x, z, radius) ==
    IF maze = NoMaze THEN FALSE
    ELSE \E r \in Max((z - radius) \div CELL_SIZE, 0)
                  ..Min((z + radius) \div CELL_SIZE, maze.rows - 1) :
         \E c \in Max((x - radius) \div CELL_SIZE, 0)
                  ..Min((x + radius) \div CELL_SIZE, maze.cols - 1) :
            CellBlocks(maze, r, c, x, z, radius)

IsBlocked(maze, x, z, radius) ==
    IF maze = NoMaze THEN FALSE
    ELSE \E r \in ((z - radius) \div CELL_SIZE)..((z + radius) \div CELL_SIZE) :
         \E c \in ((x - radius) \div CELL_SIZE)..((x + radius) \div CELL_SIZE) :
            CellBlocks(maze, r, c, x, z, radius)

----------------------------------------------------------------------------
(* room.js: game management *)

LEVELS == << [rows |-> 6, cols |-> 6, enemies |-> 3],
             [rows |-> 6, cols |-> 6, enemies |-> 5],
             [rows |-> 6, cols |-> 6, enemies |-> 8],
             [rows |-> 6, cols |-> 6, enemies |-> 12],
             [rows |-> 6, cols |-> 6, enemies |-> 16] >>

(* LEVELS[i] of the 0-based array, undefined past its end *)
LevelAt(i) == LEVELS[i + 1]

(* a _cellToWorld that gives the cell's corner *)
CellToWorldCorner(r, c) == [x |-> c * CELL_SIZE, z |-> r * CELL_SIZE]

CellToWorld(r, c) ==
    [x |-> c * CELL_SIZE + CELL_SIZE \div 2,
     z |-> r * CELL_SIZE + CELL_SIZE \div 2]

(* Math.ceil(Math.sqrt(needed / base)) *)
CeilSqrtRatio(needed, base) ==
    CHOOSE sc \in 1..needed : /\ sc * sc * base >= needed
                              /\ (sc - 1) * (sc - 1) * base < needed

ScaledMazeSize(room) ==
    LET base == IF room.currentLevel < Len(LEVELS) THEN LevelAt(room.currentLevel)
                ELSE LevelAt(0)
        neededCells == room.maxPlayers * SPAWN_SPACING * SPAWN_SPACING
        baseCells == base.rows * base.cols
    IN IF baseCells >= neededCells THEN [rows |-> base.rows, cols |-> base.cols]
       ELSE LET scale == CeilSqrtRatio(neededCells, baseCells)
            IN [rows |-> base.rows * scale, cols |-> base.cols * scale]

(* the cells of the grid in row-major order *)
AllCells(rows, cols) ==
    [i \in 1..(rows * cols) |-> [r |-> (i - 1) \div cols, c |-> (i - 1) % cols]]

Swap(cells, a, b) == [cells EXCEPT ![a] = cells[b], ![b] = cells[a]]

(* steps t0 .. t0+cnt-1 of the Fisher-Yates loop `for (i = n-1; i > 0; i--)`: step t
   has i = n-1-t and draws the (k0+t)-th random number of the handler *)
RECURSIVE ShuffleSteps(_, _, _, _, _)
ShuffleSteps(cells, seed, k0, t0, cnt) ==
    IF cnt <= 0 THEN cells
    ELSE IF cnt = 1
    THEN LET i == Len(cells) - 1 - t0
             j == RandomIndex(seed, k0 + t0, i + 1)
         IN Swap(cells, i + 1, j + 1)
    ELSE LET half == ShuffleSteps(cells, seed, k0, t0, cnt \div 2)
         IN IF Len(half) >= 0
            THEN ShuffleSteps(half, seed, k0, t0 + (cnt \div 2), cnt - (cnt \div 2))
            ELSE half

Shuffle(cells, seed, k0) == ShuffleSteps(cells, seed, k0, 0, Len(cells) - 1)

Manhattan(a, b) ==
    (IF a.r >= b.r THEN a.r - b.r ELSE b.r - a.r) + (IF a.c >= b.c THEN a.c - b.c ELSE b.c - a.c)

InSeq(cell, chosen) == \E i \in DOMAIN chosen : chosen[i] = cell

(* the greedy pass of _pickSpacedSpawns over cells[lo..hi]: acc = [chosen, done] *)
RECURSIVE GreedyPass(_, _, _, _, _)
GreedyPass(cells, count, acc, lo, hi) ==
    IF lo > hi \/ acc.done THEN acc
    ELSE IF lo = hi
    THEN LET cell == cells[lo]
             tooClose == \E i \in DOMAIN acc.chosen :
                             Manhattan(acc.chosen[i], cell) < SPAWN_SPACING
         IN IF tooClose THEN acc
            ELSE [chosen |-> Append(acc.chosen, cell),
                  done |-> Len(acc.chosen) + 1 >= count]
    ELSE LET mid == (lo + hi) \div 2
             half == GreedyPass(cells, count, acc, lo, mid)
         IN IF half.done THEN half ELSE GreedyPass(cells, count, half, mid + 1, hi)

(* a fallback pass that takes the cells as they come, chosen already or not *)
RECURSIVE FallbackPassAny(_, _, _, _, _)
FallbackPassAny(cells, count, acc, lo, hi) ==
    IF lo > hi \/ acc.done THEN acc
    ELSE IF lo = hi
    THEN [chosen |-> Append(acc.chosen, cells[lo]),
          done |-> Len(acc.chosen) + 1 >= count]
    ELSE LET mid == (lo + hi) \div 2
             half == FallbackPassAny(cells, count, acc, lo, mid)
         IN IF half.done THEN half ELSE FallbackPassAny(cells, count, half, mid + 1, hi)

(* the fallback pass: any cell not chosen yet *)
RECURSIVE FallbackPass(_, _, _, _, _)
FallbackPass(cells, count, acc, lo, hi) ==
    IF lo > hi \/ acc.done THEN acc
    ELSE IF lo = hi
    THEN LET cell == cells[lo]
         IN IF InSeq(cell, acc.chosen) THEN acc
            ELSE [chosen |-> Append(acc.chosen, cell),
                  done |-> Len(acc.chosen) + 1 >= count]
    ELSE LET mid == (lo + hi) \div 2
             half == FallbackPass(cells, count, acc, lo, mid)
         IN IF half.done THEN half ELSE FallbackPass(cells, count, half, mid + 1, hi)

(* _pickSpacedSpawns after its shuffle *)
SpawnsOfShuffled(cells, count) ==
    LET greedy == GreedyPass(cells, count, [chosen |-> <<>>, done |-> FALSE], 1, Len(cells))
    IN IF Len(greedy.chosen) < count
       THEN FallbackPass(cells, count, [chosen |-> greedy.chosen, done |-> FALSE],
                         1, Len(cells)).chosen
       ELSE greedy.chosen

PickSpacedSpawns(count, rows, cols, seed, k0) ==
    SpawnsOfShuffled(Shuffle(AllCells(rows, cols), seed, k0), count)

(* the placement loop of _generateEnemyPositions over cells[lo..hi] *)
RECURSIVE EnemyPass(_, _, _, _, _, _)
EnemyPass(cells, count, forbidden, positions, lo, hi) ==
    IF lo > hi \/ Len(positions) >= count THEN positions
    ELSE IF lo = hi
    THEN LET cell == cells[lo]
             world == CellToWorld(cell.r, cell.c)
         IN IF InSeq(cell, forbidden) THEN positions
            ELSE Append(positions,
                        [id |-> Len(positions) + 1, x |-> world.x, z |-> world.z, hp |-> 30])
    ELSE LET mid == (lo + hi) \div 2
             half == EnemyPass(cells, count, forbidden, positions, lo, mid)
         IN IF Len(half) >= count THEN half
            ELSE EnemyPass(cells, count, forbidden, half, mid + 1, hi)

(* _generateEnemyPositions(rows, cols, count, spawnCandidates); enemy `e<n>` has id n *)
GenerateEnemyPositions(rows, cols, count, spawnCandidates, seed, k0) ==
    LET cells == Shuffle(AllCells(rows, cols), seed, k0)
    IN EnemyPass(cells, count, spawnCandidates, <<>>, 1, Len(cells))

(* `LEVELS[Math.min(level, LEVELS.length - 1)].enemies || 5` *)
EnemyCount(level) == LevelAt(Min(level, Len(LEVELS) - 1)).enemies

(* maxPlayers as createRoom computes it: `Math.min(maxPlayers || 8, 16)` *)
ClampMaxPlayers(maxPlayers) ==
    Min(IF maxPlayers = 0 THEN DefaultMaxPlayers ELSE maxPlayers, MaxPlayersCap)

(* The mazes, shuffles and enemy lists a game start can compute, tabulated by what
   they depend on, so that they are computed once: the grid side, the seed of the
   handler, and the number of random draws that came before *)
GridSides ==
    {ScaledMazeSize([currentLevel |-> 0, maxPlayers |-> ClampMaxPlayers(mp)]).rows :
        mp \in MaxPlayersInputs}

MazeTable == [side \in GridSides, seed \in Seeds |-> GenerateMaze(side, side, seed, 0)]

ShuffleTable ==
    [side \in GridSides, seed \in Seeds, n \in 0..(MaxSockets + 1) |->
        Shuffle(AllCells(side, side), seed, n * (side * side - 1))]

(* startGame(): the maze draws first, then the spawn shuffle, then one enemy shuffle
   per roster member in roster order; a shuffle of n cells draws n-1 numbers and
   generateMaze one per carved wall, n-1 in all *)
StartGame(room, seed) ==
    LET size == ScaledMazeSize(room)
        rows == size.rows
        cols == size.cols
        maze == IF room.flatArena THEN ArenaMaze(rows, cols)
                ELSE MazeTable[rows, seed]
        nSpawn == IF room.flatArena THEN 0 ELSE 1
        spawns == SpawnsOfShuffled(ShuffleTable[rows, seed, nSpawn], room.maxPlayers)
        EnemiesOf(i) ==
            LET cells == ShuffleTable[rows, seed, nSpawn + i]
            IN EnemyPass(cells, EnemyCount(room.players[i].level), spawns, <<>>,
                         1, Len(cells))
        Cache(id) ==
            LET i == IndexOf(room, id)
                old == IF id \in DOMAIN room.playerEnemies THEN room.playerEnemies[id]
                       ELSE EmptyMap
            IN MapSet(old, room.players[i].level, EnemiesOf(i))
        Placed(i) ==
            LET cell == spawns[((i - 1) % Len(spawns)) + 1]
                pos == CellToWorld(cell.r, cell.c)
            IN [room.players[i] EXCEPT !.x = pos.x, !.y = DefaultY, !.z = pos.z,
                                       !.yaw = 0, !.pitch = 0,
                                       !.health = 100, !.alive = TRUE]
    IN [room EXCEPT
          !.maze = maze,
          !.startCell = [r |-> 0, c |-> 0],
          !.exitCell = [r |-> rows - 1, c |-> cols - 1],
          !.state = "playing",
          !.playerEnemies = [id \in DOMAIN room.playerEnemies \cup PlayerIds(room) |->
                                IF id \in PlayerIds(room) THEN Cache(id)
                                ELSE room.playerEnemies[id]],
          !.players = [i \in DOMAIN room.players |-> Placed(i)]]

(* advancePlayerLevel with the increment applied to every roster entry *)
AdvancePlayerLevelForAll(room, playerId, seed) ==
    IF ~HasPlayer(room, playerId) THEN [room |-> room, payloads |-> <<>>]
    ELSE LET level == GetPlayer(room, playerId).level + 1
             base == LevelAt(Min(level, Len(LEVELS) - 1))
             maze == IF room.flatArena THEN ArenaMaze(base.rows, base.cols)
                     ELSE MazeTable[base.rows, seed]
             cells == ShuffleTable[base.rows, seed, IF room.flatArena THEN 0 ELSE 1]
             enemyPositions == EnemyPass(cells, base.enemies, <<>>, <<>>, 1, Len(cells))
             world == CellToWorld(0, 0)
             old == IF playerId \in DOMAIN room.playerEnemies
                    THEN room.playerEnemies[playerId] ELSE EmptyMap
         IN [room |->
               [room EXCEPT
                  !.players = [i \in DOMAIN @ |->
                                 IF @[i].id = playerId
                                 THEN [@[i] EXCEPT !.level = level,
                                                   !.x = world.x, !.z = world.z]
                                 ELSE [@[i] EXCEPT !.level = @ + 1]],
                  !.playerEnemies = MapSet(@, playerId, MapSet(old, level, enemyPositions))],
             payloads |->
               << [maze |-> maze,
                   startCell |-> [r |-> 0, c |-> 0],
                   exitCell |-> [r |-> base.rows - 1, c |-> base.cols - 1],
                   level |-> level,
                   enemies |-> enemyPositions] >>]

(* advancePlayerLevel(playerId, emitFn): the room after the call and the payloads
   handed to emitFn. The maze draws come first (none in a flat arena), then the
   shuffle of _generateEnemyPositions, which is called without spawn candidates *)
AdvancePlayerLevel(room, playerId, seed) ==
    IF ~HasPlayer(room, playerId) THEN [room |-> room, payloads |-> <<>>]
    ELSE LET level == GetPlayer(room, playerId).level + 1
             base == LevelAt(Min(level, Len(LEVELS) - 1))
             maze == IF room.flatArena THEN ArenaMaze(base.rows, base.cols)
                     ELSE MazeTable[base.rows, seed]
             cells == ShuffleTable[base.rows, seed, IF room.flatArena THEN 0 ELSE 1]
             enemyPositions == EnemyPass(cells, base.enemies, <<>>, <<>>, 1, Len(cells))
             world == CellToWorld(0, 0)
             old == IF playerId \in DOMAIN room.playerEnemies
                    THEN room.playerEnemies[playerId] ELSE EmptyMap
         IN [room |->
               [room EXCEPT
                  !.players = [i \in DOMAIN @ |->
                                 IF @[i].id = playerId
                                 THEN [@[i] EXCEPT !.level = level,
                                                   !.x = world.x, !.z = world.z]
                                 ELSE @[i]],
                  !.playerEnemies = MapSet(@, playerId, MapSet(old, level, enemyPositions))],
             payloads |->
               << [maze |-> maze,
                   startCell |-> [r |-> 0, c |-> 0],
                   exitCell |-> [r |-> base.rows - 1, c |-> base.cols - 1],
                   level |-> level,
                   enemies |-> enemyPositions] >>]

(* _isExitPos(x, z): the position is in the exit cell or less than 0.4 cells from
   its centre; false while the room has no exit cell or no maze *)
IsExitPos(room, x, z) ==
    IF room.exitCell.r < 0 \/ room.maze.rows = 0 THEN FALSE
    ELSE IF FloorDiv(z, CELL_SIZE) = room.exitCell.r
            /\ FloorDiv(x, CELL_SIZE) = room.exitCell.c THEN TRUE
    ELSE LET world == CellToWorld(room.exitCell.r, room.exitCell.c)
             dx == x - world.x
             dz == z - world.z
             thresh == (CELL_SIZE * 4) \div 10
         IN dx * dx + dz * dz < thresh * thresh

GetStartPayload(room) ==
    [maze |-> room.maze,
     startCell |-> room.startCell,
     exitCell |-> room.exitCell,
     level |-> room.currentLevel,
     players |-> GetGameState(room).players]

----------------------------------------------------------------------------
(* server.js: emitting *)

Msg(type, to, data) == [type |-> type, to |-> to, data |-> data]

(* the sockets joined to the socket.io room `room:<roomId>` *)
InChannel(chans, roomId) == {k \in DOMAIN chans : roomId \in chans[k]}

Connected(socks) == {k \in DOMAIN socks : socks[k].connected}

(* rooms.values(): a Map iterates in insertion order, which is the order of the ids *)
RoomList(rms) ==
    LET ids == SortedSeq(DOMAIN rms)
    IN [i \in DOMAIN ids |-> GetInfo(rms[ids[i]])]

(* The handlers below work on a record s of the server's collections,
   [rooms, playerRooms, playerNames, channels, out], out being the messages emitted *)

(* _broadcastRoomList(): io.emit reaches every connected socket *)
BroadcastRoomList(s, socks) ==
    [s EXCEPT !.out = Append(@, Msg("roomList", Connected(socks), RoomList(s.rooms)))]

(* a _leaveCurrentRoom that leaves the roster alone *)
LeaveCurrentRoomKeepsPlayer(s, sock) ==
    [s EXCEPT !.playerRooms = MapDel(@, sock)]

(* _leaveCurrentRoom(socket) *)
LeaveCurrentRoom(s, sock) ==
    IF sock \notin DOMAIN s.playerRooms THEN s
    ELSE LET roomId == s.playerRooms[sock]
         IN IF roomId \in DOMAIN s.rooms
            THEN LET room == RemovePlayer(s.rooms[roomId], sock)
                     chans == [s.channels EXCEPT ![sock] = @ \ {roomId}]
                     others == InChannel(chans, roomId) \ {sock}
                     left == Msg("playerLeft", others, [id |-> sock])
                 IN IF IsEmpty(room)
                    THEN [s EXCEPT !.rooms = MapDel(@, roomId),
                                   !.channels = chans,
                                   !.out = Append(@, left),
                                   !.playerRooms = MapDel(@, sock)]
                    ELSE [s EXCEPT !.rooms = MapSet(@, roomId, room),
                                   !.channels = chans,
                                   !.out = Append(Append(@, left),
                                                  Msg("roomUpdated", others, GetInfo(room))),
                                   !.playerRooms = MapDel(@, sock)]
            ELSE [s EXCEPT !.playerRooms = MapDel(@, sock)]

(* the inner loop of the reattach pass for one room: the first roster entry whose
   persistentId is pid under another id is moved under the new socket id *)
ReattachInRoom(s, roomId, sock, pid) ==
    LET room == s.rooms[roomId]
        hits == {i \in DOMAIN room.players :
                    room.players[i].persistentId = pid /\ room.players[i].id # sock}
    IN IF hits = {} THEN s
       ELSE LET i == CHOOSE h \in hits : \A g \in hits : h <= g
                p == room.players[i]
                oldId == p.id
                moved == RosterSet(RosterDelete(room.players, oldId), sock,
                                   [p EXCEPT !.id = sock])
            IN [s EXCEPT !.rooms = MapSet(@, roomId, [room EXCEPT !.players = moved]),
                         !.playerRooms = MapSet(MapDel(@, oldId), sock, roomId),
                         !.playerNames = MapSet(MapDel(@, oldId), sock, p.name),
                         !.channels = [@ EXCEPT ![sock] = @ \cup {roomId}]]

RECURSIVE ReattachRooms(_, _, _, _)
ReattachRooms(s, ids, sock, pid) ==
    IF Len(ids) = 0 THEN s
    ELSE ReattachRooms(ReattachInRoom(s, ids[1], sock, pid), Tail(ids), sock, pid)

Reattach(s, sock, pid) ==
    IF pid = Null THEN s ELSE ReattachRooms(s, SortedSeq(DOMAIN s.rooms), sock, pid)

Server == [rooms |-> rooms, playerRooms |-> playerRooms, playerNames |-> playerNames,
           channels |-> channels, out |-> <<>>]

(* the assignment of a handler's result to the collections *)
Commit(s) ==
    /\ rooms' = s.rooms
    /\ playerRooms' = s.playerRooms
    /\ playerNames' = s.playerNames
    /\ channels' = s.channels
    /\ emitted' = s.out

(* the rooms whose creatorId the step changed, each with the old and the new creator *)
Handover(before, after) ==
    {<<r, before[r].creatorId, after[r].creatorId>> :
        r \in {x \in DOMAIN before \cap DOMAIN after :
                  before[x].creatorId # after[x].creatorId}}

(* the record of the branch a handler took; it follows the assignment of rooms *)
Done(branch, sock) ==
    /\ last' = [branch |-> branch, sock |-> sock, handover |-> Handover(rooms, rooms')]
    /\ UNCHANGED call

(* `socket.handshake.query.pid || null` *)
PidOf(q) == IF q = "" THEN Null ELSE q

----------------------------------------------------------------------------
(* server.js: the connection handler and the message handlers *)

(* no call of a function on its own *)
NoCall == [fn |-> "none"]

(* the collections of server.js when the module has been loaded *)
Boot ==
    /\ sockets = <<>>
    /\ rooms = EmptyMap
    /\ nextRoomId = 1
    /\ playerRooms = EmptyMap
    /\ playerNames = EmptyMap
    /\ disconnectTimers = EmptyMap
    /\ timers = {}
    /\ channels = <<>>
    /\ nMoves = 0
    /\ emitted = <<>>
    /\ last = [branch |-> "init", sock |-> 0, handover |-> {}]

Init == Boot /\ call = NoCall

(* io.on('connection') for a new socket whose handshake query carries q *)
Connect(q) ==
    /\ LET sock == Len(sockets) + 1
           pid == PidOf(q)
           cancel == pid # Null /\ pid \in DOMAIN disconnectTimers
           s0 == [Server EXCEPT !.channels = Append(@, {})]
       IN /\ sockets' = Append(sockets, [persistentId |-> pid, connected |-> TRUE])
          /\ timers' = IF cancel THEN timers \ {disconnectTimers[pid]} ELSE timers
          /\ disconnectTimers' = IF cancel THEN MapDel(disconnectTimers, pid)
                                 ELSE disconnectTimers
          /\ Commit(Reattach(s0, sock, pid))
          /\ Done(IF cancel THEN "reconnect" ELSE "connect", sock)
    /\ UNCHANGED <<nextRoomId, nMoves>>

(* socket.on('setName') *)
SetName(sock, name) ==
    /\ sock \in Connected(sockets)
    /\ playerNames' = MapSet(playerNames, sock,
                             Substring(OrDefault(name, PlayerDefaultName), NameMaxLen))
    /\ emitted' = <<>>
    /\ UNCHANGED <<sockets, rooms, nextRoomId, playerRooms, disconnectTimers, timers,
                   channels, nMoves>>
    /\ Done("setName", sock)

NameOf(names, sock) == IF sock \in DOMAIN names THEN names[sock] ELSE PlayerDefaultName

(* socket.on('createRoom') *)
CreateRoom(sock, name, maxPlayers, arena) ==
    /\ sock \in Connected(sockets)
    /\ LET s1 == LeaveCurrentRoom(Server, sock)
           fresh == [NewRoom(nextRoomId,
                             Substring(OrDefault(name, RoomDefaultName), RoomNameMaxLen),
                             ClampMaxPlayers(maxPlayers),
                             sock)
                     EXCEPT !.flatArena = arena]
           room == AddPlayer(fresh, sock, NameOf(s1.playerNames, sock), "rifle",
                             sockets[sock].persistentId)
           s2 == [s1 EXCEPT !.rooms = MapSet(@, room.id, room),
                            !.playerRooms = MapSet(@, sock, room.id),
                            !.channels = [@ EXCEPT ![sock] = @ \cup {room.id}],
                            !.out = Append(@, Msg("roomJoined", {sock},
                                                  [roomId |-> room.id,
                                                   room |-> GetInfo(room),
                                                   players |-> GetGameState(room).players,
                                                   isCreator |-> TRUE]))]
       IN Commit(BroadcastRoomList(s2, sockets))
    /\ Done("createRoom", sock)
    /\ nextRoomId' = nextRoomId + 1
    /\ UNCHANGED <<sockets, disconnectTimers, timers, nMoves>>

(* guards of joinRoom without the one on the roster's size *)
JoinRefusalNeverFull(rms, roomId) ==
    IF roomId \notin DOMAIN rms THEN "Room not found"
    ELSE IF rms[roomId].state = "playing" THEN "Game already in progress"
    ELSE ""

(* guards of joinRoom without the one on the room's state; C5 tells them from
   JoinRefusal *)
JoinRefusalAnyState(rms, roomId) ==
    IF roomId \notin DOMAIN rms THEN "Room not found"
    ELSE IF Len(rms[roomId].players) >= rms[roomId].maxPlayers THEN "Room is full"
    ELSE ""

(* the guards of joinRoom: the message of the error it answers with, "" when it
   lets the request through *)
JoinRefusal(rms, roomId) ==
    IF roomId \notin DOMAIN rms THEN "Room not found"
    ELSE IF Len(rms[roomId].players) >= rms[roomId].maxPlayers THEN "Room is full"
    ELSE IF rms[roomId].state = "playing" THEN "Game already in progress"
    ELSE ""

(* socket.on('joinRoom') *)
JoinRoom(sock, roomId) ==
    /\ sock \in Connected(sockets)
    /\ LET message == JoinRefusal(rooms, roomId)
       IN IF message # ""
          THEN /\ Commit([Server EXCEPT !.out = <<Msg("error", {sock},
                                                      [message |-> message])>>])
               /\ Done("joinRefused", sock)
          ELSE LET s1 == LeaveCurrentRoom(Server, sock)
                   \* `room` is the object looked up first: when the sender was alone in
                   \* it, _leaveCurrentRoom has dropped it from the registry by now
                   before == IF roomId \in DOMAIN s1.rooms THEN s1.rooms[roomId]
                             ELSE RemovePlayer(rooms[roomId], sock)
                   playerName == NameOf(s1.playerNames, sock)
                   room == AddPlayer(before, sock, playerName, "rifle",
                                     sockets[sock].persistentId)
                   chans == [s1.channels EXCEPT ![sock] = @ \cup {roomId}]
                   s2 == [s1 EXCEPT
                            !.rooms = IF roomId \in DOMAIN s1.rooms
                                      THEN MapSet(@, roomId, room) ELSE @,
                            !.playerRooms = MapSet(@, sock, roomId),
                            !.channels = chans,
                            !.out = Append(Append(@,
                                       Msg("roomJoined", {sock},
                                           [roomId |-> roomId,
                                            room |-> GetInfo(room),
                                            players |-> GetGameState(room).players,
                                            isCreator |-> (room.creatorId = sock)])),
                                       Msg("playerJoined", InChannel(chans, roomId) \ {sock},
                                           [id |-> sock, name |-> playerName]))]
               IN /\ Commit(BroadcastRoomList(s2, sockets))
                  /\ Done("joinRoom", sock)
    /\ UNCHANGED <<sockets, nextRoomId, disconnectTimers, timers, nMoves>>

(* socket.on('leaveRoom') *)
LeaveRoom(sock) ==
    /\ sock \in Connected(sockets)
    /\ Commit(BroadcastRoomList(LeaveCurrentRoom(Server, sock), sockets))
    /\ Done("leaveRoom", sock)
    /\ UNCHANGED <<sockets, nextRoomId, disconnectTimers, timers, nMoves>>

(* a handler that returns early: nothing changes and nothing is emitted *)
Ignore == Commit(Server) /\ Done("ignored", 0)

(* the `playerLevelAdvanced` payload of startGame and createRoom: the player's level
   and the cached enemy list of that level *)
LevelPayload(room, id) ==
    LET level == GetPlayer(room, id).level
        perPlayer == IF id \in DOMAIN room.playerEnemies THEN room.playerEnemies[id]
                     ELSE EmptyMap
    IN [maze |-> room.maze,
        startCell |-> room.startCell,
        exitCell |-> room.exitCell,
        level |-> level,
        enemies |-> IF level \in DOMAIN perPlayer THEN perPlayer[level] ELSE <<>>]

(* a creator guard that lets every member through; C6 tells it from NotCreator *)
NotCreatorNever(room, sock) == FALSE

(* the creator guard of startGame *)
NotCreator(room, sock) == room.creatorId # sock

(* socket.on('startGame'), with the seed of the Math.random() calls of room.startGame *)
StartGameHandler(sock, seed) ==
    /\ sock \in Connected(sockets)
    /\ IF sock \notin DOMAIN playerRooms THEN Ignore
       ELSE IF playerRooms[sock] \notin DOMAIN rooms THEN Ignore
       ELSE IF NotCreator(rooms[playerRooms[sock]], sock)
       THEN /\ Commit([Server EXCEPT !.out =
                   <<Msg("error", {sock},
                         [message |-> "Only the room creator can start the game"])>>])
            /\ Done("startRefused", sock)
       ELSE IF rooms[playerRooms[sock]].state = "playing" THEN Ignore
       ELSE LET roomId == playerRooms[sock]
                room == StartGame(rooms[roomId], seed)
                ids == [i \in DOMAIN room.players |-> room.players[i].id]
                live == SelectSeq(ids, LAMBDA id : id \in Connected(sockets))
                s1 == [Server EXCEPT
                         !.rooms = MapSet(@, roomId, room),
                         !.out = <<Msg("gameStarted", InChannel(channels, roomId),
                                       GetStartPayload(room))>>
                                 \o [i \in DOMAIN live |->
                                       Msg("playerLevelAdvanced", {live[i]},
                                           LevelPayload(room, live[i]))]]
            IN /\ Commit(BroadcastRoomList(s1, sockets))
               /\ Done("startGame", sock)
    /\ UNCHANGED <<sockets, nextRoomId, disconnectTimers, timers, nMoves>>

(* `Number(data.y) || 2`: zero (and anything that is not a number) gives the default *)
NumberOr(v, dflt) == IF v = 0 THEN dflt ELSE v

(* an anti-teleport guard that lets every distance through; C9 tells it from
   Teleport *)
TeleportNever(player, newX, newZ) == FALSE

(* the anti-teleport guard of move: the squared horizontal distance of the request
   from the authoritative position against maxMoveDist squared *)
Teleport(player, newX, newZ) ==
    LET dx == newX - player.x
        dz == newZ - player.z
        distSq == dx * dx + dz * dz
    IN distSq > MaxMoveDist * MaxMoveDist

(* a wall check that lets every target through; C10 tells it from Blocked *)
BlockedNever(room, newX, newZ) == FALSE

(* a wall check for a player without a radius *)
BlockedAsPoint(room, newX, newZ) == IsBlocked(room.maze, newX, newZ, 0)

(* the wall check of move, with the player's radius of 0.4 *)
Blocked(room, newX, newZ) == IsBlocked(room.maze, newX, newZ, MoveRadius)

(* socket.on('move'); data = [x, y, z, yaw, pitch, sprinting].  After an accepted move
   the handler calls room._isPlayerExitPos, which class Room does not define: the call
   throws a TypeError, the handler's catch logs it, and the playerMoved broadcast that
   follows the call is not reached *)
Move(sock, data) ==
    /\ sock \in Connected(sockets)
    /\ IF sock \notin DOMAIN playerRooms THEN Ignore /\ UNCHANGED nMoves
       ELSE IF playerRooms[sock] \notin DOMAIN rooms THEN Ignore /\ UNCHANGED nMoves
       ELSE IF rooms[playerRooms[sock]].state # "playing" THEN Ignore /\ UNCHANGED nMoves
       ELSE IF ~HasPlayer(rooms[playerRooms[sock]], sock) THEN Ignore /\ UNCHANGED nMoves
       ELSE IF ~GetPlayer(rooms[playerRooms[sock]], sock).alive
       THEN Ignore /\ UNCHANGED nMoves
       ELSE LET roomId == playerRooms[sock]
                room == rooms[roomId]
                i == IndexOf(room, sock)
                player == room.players[i]
                newX == data.x
                newZ == data.z
                correction == Msg("positionCorrection", {sock},
                                  [x |-> player.x, y |-> player.y, z |-> player.z])
            IN IF Teleport(player, newX, newZ)
               THEN /\ Commit([Server EXCEPT !.out = <<correction>>])
                    /\ Done("teleport", sock)
                    /\ UNCHANGED nMoves
               ELSE IF Blocked(room, newX, newZ)
               THEN /\ Commit([Server EXCEPT !.out = <<correction>>])
                    /\ Done("blocked", sock)
                    /\ UNCHANGED nMoves
               ELSE /\ nMoves' = nMoves + 1
                    /\ Commit([Server EXCEPT !.rooms[roomId].players[i] =
                                 [player EXCEPT !.x = newX, !.z = newZ,
                                                !.y = NumberOr(data.y, DefaultY),
                                                !.yaw = data.yaw,
                                                !.pitch = data.pitch,
                                                !.sprinting = data.sprinting]])
                    /\ Done("moved", sock)
    /\ UNCHANGED <<sockets, nextRoomId, disconnectTimers, timers>>

(* socket.on('playerReachedExit'): the first signal of a roster entry sets its
   _exitTriggered and advances it; the payload goes to the player's own id *)
PlayerReachedExit(sock, seed) ==
    /\ sock \in Connected(sockets)
    /\ IF sock \notin DOMAIN playerRooms THEN Ignore
       ELSE IF playerRooms[sock] \notin DOMAIN rooms THEN Ignore
       ELSE IF rooms[playerRooms[sock]].state # "playing" THEN Ignore
       ELSE IF ~HasPlayer(rooms[playerRooms[sock]], sock) THEN Ignore
       ELSE IF GetPlayer(rooms[playerRooms[sock]], sock).exitTriggered THEN Ignore
       ELSE LET roomId == playerRooms[sock]
                room == rooms[roomId]
                i == IndexOf(room, sock)
                flagged == [room EXCEPT !.players[i].exitTriggered = TRUE]
            IN \E adv \in {AdvancePlayerLevel(flagged, sock, seed)} :
                  /\ Commit([Server EXCEPT
                               !.rooms[roomId] = adv.room,
                               !.out = [k \in DOMAIN adv.payloads |->
                                          Msg("playerLevelAdvanced", {sock},
                                              adv.payloads[k])]])
                  /\ Done("reachedExit", sock)
    /\ UNCHANGED <<sockets, nextRoomId, disconnectTimers, timers, nMoves>>

(* a disconnect handler that starts a grace timer whether or not the socket has a
   token; C4 tells it from Disconnect *)
DisconnectGraceForAll(sock) ==
    /\ sock \in Connected(sockets)
    /\ sockets' = [sockets EXCEPT ![sock].connected = FALSE]
    /\ timers' = timers \cup {sock}
    /\ disconnectTimers' = MapSet(disconnectTimers, sockets[sock].persistentId, sock)
    /\ Commit([Server EXCEPT !.channels = [@ EXCEPT ![sock] = {}]])
    /\ Done("grace", sock)
    /\ UNCHANGED <<nextRoomId, nMoves>>

(* socket.on('disconnect'): socket.io has taken the socket out of its rooms by then *)
Disconnect(sock) ==
    /\ sock \in Connected(sockets)
    /\ sockets' = [sockets EXCEPT ![sock].connected = FALSE]
    /\ LET pid == sockets[sock].persistentId
           s0 == [Server EXCEPT !.channels = [@ EXCEPT ![sock] = {}]]
       IN IF pid # Null
          THEN /\ timers' = timers \cup {sock}
               /\ disconnectTimers' = MapSet(disconnectTimers, pid, sock)
               /\ Commit(s0)
               /\ Done("grace", sock)
          ELSE /\ LET s1 == LeaveCurrentRoom(s0, sock)
                      s2 == [s1 EXCEPT !.playerNames = MapDel(@, sock)]
                  IN Commit(BroadcastRoomList(s2, sockets'))
               /\ Done("cleanup", sock)
               /\ UNCHANGED <<timers, disconnectTimers>>
    /\ UNCHANGED <<nextRoomId, nMoves>>

(* a grace-timer callback that keeps the name mapping; C3 tells it from GraceTimer *)
GraceTimerKeepsName(sock) ==
    /\ sock \in timers
    /\ timers' = timers \ {sock}
    /\ Commit(BroadcastRoomList(LeaveCurrentRoom(Server, sock), sockets))
    /\ Done("timer", sock)
    /\ disconnectTimers' = MapDel(disconnectTimers, sockets[sock].persistentId)
    /\ UNCHANGED <<sockets, nextRoomId, nMoves>>

(* the setTimeout callback of the disconnect handler of socket `sock`, 15 s later *)
GraceTimer(sock) ==
    /\ sock \in timers
    /\ timers' = timers \ {sock}
    /\ LET s1 == LeaveCurrentRoom(Server, sock)
           s2 == [s1 EXCEPT !.playerNames = MapDel(@, sock)]
       IN Commit(BroadcastRoomList(s2, sockets))
    /\ Done("timer", sock)
    /\ disconnectTimers' = MapDel(disconnectTimers, sockets[sock].persistentId)
    /\ UNCHANGED <<sockets, nextRoomId, nMoves>>

----------------------------------------------------------------------------
(* server.js: combat. Lengths are in the model's unit of 0.05, health and scores
   are the code's numbers *)

WEAPON_DAMAGE == [rifle |-> 25, shotgun |-> 15, pistol |-> 20]

WEAPON_RANGE == [rifle |-> 1200, shotgun |-> 500, pistol |-> 900]

WEAPON_PELLETS == [rifle |-> 1, shotgun |-> 5, pistol |-> 1]

(* `TABLE[weapon] || dflt` *)
TableOr(table, weapon, dflt) ==
    IF weapon \in DOMAIN table THEN table[weapon] ELSE dflt

Sign(v) == IF v > 0 THEN 1 ELSE IF v < 0 THEN -1 ELSE 0

(* the division of a direction by its length, for the directions the model sends:
   at most one component is not zero, so the quotient is the component's sign; a
   zero vector has length 0 and is left as it is *)
Normalise(d) == [x |-> Sign(d.x), y |-> Sign(d.y), z |-> Sign(d.z)]

(* a hit test that skips neither the shooter nor the dead *)
HitsAtAnyone(players, shooterId, px, py, pz) ==
    {i \in DOMAIN players :
        /\ (px - players[i].x) * (px - players[i].x)
           + (pz - players[i].z) * (pz - players[i].z) < HitRadius * HitRadius
        /\ py > players[i].y - HitBelow
        /\ py < players[i].y + HitAbove}

(* the roster entries the ray point (px, py, pz) hits: not the shooter, alive,
   horizontally within hitRadius and vertically between y - 1.5 and y + 0.5 *)
HitsAt(players, shooterId, px, py, pz) ==
    {i \in DOMAIN players :
        /\ players[i].id # shooterId
        /\ players[i].alive
        /\ (px - players[i].x) * (px - players[i].x)
           + (pz - players[i].z) * (pz - players[i].z) < HitRadius * HitRadius
        /\ py > players[i].y - HitBelow
        /\ py < players[i].y + HitAbove}

(* the loop of raycastPlayers from sample k on, RayBlock samples at a time: the
   first sample that is blocked or hits somebody decides *)
RECURSIVE RayFrom(_, _, _, _, _, _, _)
RayFrom(k, lastK, origin, dir, players, shooterId, maze) ==
    LET Px(j) == origin.x + dir.x * j * RayStep
        Py(j) == origin.y + dir.y * j * RayStep
        Pz(j) == origin.z + dir.z * j * RayStep
        Stops(j) == \/ IsBlocked(maze, Px(j), Pz(j), OcclusionRadius)
                    \/ HitsAt(players, shooterId, Px(j), Py(j), Pz(j)) # {}
        block == k..Min(k + RayBlock - 1, lastK)
    IN IF k > lastK THEN NullId
       ELSE IF \E j \in block : Stops(j)
       THEN LET m == CHOOSE j \in block : Stops(j) /\ \A i \in k..(j - 1) : ~Stops(i)
                hits == HitsAt(players, shooterId, Px(m), Py(m), Pz(m))
            IN IF IsBlocked(maze, Px(m), Pz(m), OcclusionRadius) THEN NullId
               ELSE players[CHOOSE i \in hits : \A j \in hits : i <= j].id
       ELSE RayFrom(k + RayBlock, lastK, origin, dir, players, shooterId, maze)

(* raycastPlayers(): the ray is sampled every `step` from 0 while dist < maxRange;
   null if the deciding sample is blocked or there is none, else the first roster
   entry the sample hits. NullId stands for null *)
RaycastPlayers(origin, dir, maxRange, players, shooterId, maze) ==
    RayFrom(0, ((maxRange + RayStep - 1) \div RayStep) - 1, origin, dir, players,
            shooterId, maze)

(* a queueRespawn that pushes the entry twice *)
QueueRespawnTwice(queue, playerId, delay) ==
    Append(Append(queue, [playerId |-> playerId, wait |-> delay]),
           [playerId |-> playerId, wait |-> delay])

(* queueRespawn(playerId, delayMs): the entry keeps the time still to wait, which
   Elapse counts down, in place of the instant respawnAt *)
QueueRespawn(queue, playerId, delay) ==
    Append(queue, [playerId |-> playerId, wait |-> delay])

(* the pellet's effect without `target.health = 0` on a kill *)
PelletOnUnclamped(f, targetId, shooterId, roomId, damage, chans) ==
    IF targetId = NullId THEN f
    ELSE LET t == CHOOSE i \in DOMAIN f.players : f.players[i].id = targetId
             a == CHOOSE i \in DOMAIN f.players : f.players[i].id = shooterId
             health == f.players[t].health - damage
         IN IF ~f.players[t].alive THEN f
            ELSE IF health <= 0
            THEN [players |-> [f.players EXCEPT
                                  ![t].health = health, ![t].alive = FALSE,
                                  ![t].deaths = @ + 1,
                                  ![a].score = @ + SCORE_PLAYER_KILL],
                  queue |-> QueueRespawn(f.queue, targetId, RespawnDelay),
                  out |-> Append(f.out,
                     Msg("playerKilled", InChannel(chans, roomId),
                         [killerId |-> shooterId, killerName |-> f.players[a].name,
                          targetId |-> targetId, targetName |-> f.players[t].name,
                          killerScore |-> f.players[a].score + SCORE_PLAYER_KILL]))]
            ELSE [f EXCEPT !.players[t].health = health,
                           !.out = Append(Append(@,
                               Msg("playerDamaged", {targetId},
                                   [health |-> health, attackerId |-> shooterId])),
                               Msg("hitConfirmed", {shooterId},
                                   [targetId |-> targetId, damage |-> damage,
                                    targetHealth |-> health]))]

(* a pellet that kills whoever it hits, whatever health is left *)
PelletOnAlwaysKills(f, targetId, shooterId, roomId, damage, chans) ==
    IF targetId = NullId THEN f
    ELSE LET t == CHOOSE i \in DOMAIN f.players : f.players[i].id = targetId
             a == CHOOSE i \in DOMAIN f.players : f.players[i].id = shooterId
         IN IF ~f.players[t].alive THEN f
            ELSE [players |-> [f.players EXCEPT
                                  ![t].health = 0, ![t].alive = FALSE,
                                  ![t].deaths = @ + 1,
                                  ![a].score = @ + SCORE_PLAYER_KILL],
                  queue |-> QueueRespawn(f.queue, targetId, RespawnDelay),
                  out |-> Append(f.out,
                     Msg("playerKilled", InChannel(chans, roomId),
                         [killerId |-> shooterId, killerName |-> f.players[a].name,
                          targetId |-> targetId, targetName |-> f.players[t].name,
                          killerScore |-> f.players[a].score + SCORE_PLAYER_KILL]))]

(* what a pellet does to f = [players, queue, out] when raycastPlayers returns
   targetId: nothing if that is null or the target is not alive; else the target
   loses `damage` health and either dies or is told of the damage *)
PelletOn(f, targetId, shooterId, roomId, damage, chans) ==
    IF targetId = NullId THEN f
    ELSE LET t == CHOOSE i \in DOMAIN f.players : f.players[i].id = targetId
             a == CHOOSE i \in DOMAIN f.players : f.players[i].id = shooterId
             health == f.players[t].health - damage
         IN IF ~f.players[t].alive THEN f
            ELSE IF health <= 0
            THEN [players |-> [f.players EXCEPT
                                  ![t].health = 0, ![t].alive = FALSE,
                                  ![t].deaths = @ + 1,
                                  ![a].score = @ + SCORE_PLAYER_KILL],
                  queue |-> QueueRespawn(f.queue, targetId, RespawnDelay),
                  out |-> Append(f.out,
                     Msg("playerKilled", InChannel(chans, roomId),
                         [killerId |-> shooterId, killerName |-> f.players[a].name,
                          targetId |-> targetId, targetName |-> f.players[t].name,
                          killerScore |-> f.players[a].score + SCORE_PLAYER_KILL]))]
            ELSE [f EXCEPT !.players[t].health = health,
                           !.out = Append(Append(@,
                               Msg("playerDamaged", {targetId},
                                   [health |-> health, attackerId |-> shooterId])),
                               Msg("hitConfirmed", {shooterId},
                                   [targetId |-> targetId, damage |-> damage,
                                    targetHealth |-> health]))]

(* one pass of the pellet loop: the pellet flies along dir (see Shoot for the
   spread); the one-element set binds raycastPlayers' result as a value *)
Pellet(f, shooterId, roomId, origin, dir, maxRange, damage, maze, chans) ==
    CHOOSE r \in {PelletOn(f, targetId, shooterId, roomId, damage, chans) :
                    targetId \in {RaycastPlayers(origin, dir, maxRange, f.players,
                                                 shooterId, maze)}} : TRUE

(* the state of the pellet loop after n pellets; the one-element set binds the
   state after n - 1 pellets as a value *)
RECURSIVE Pellets(_, _, _, _, _, _, _, _, _, _)
Pellets(f, n, shooterId, roomId, origin, dir, maxRange, damage, maze, chans) ==
    IF n = 0 THEN f
    ELSE CHOOSE r \in {Pellet(g, shooterId, roomId, origin, dir, maxRange, damage,
                              maze, chans) :
                          g \in {Pellets(f, n - 1, shooterId, roomId, origin, dir,
                                         maxRange, damage, maze, chans)}} : TRUE

(* a payload without `origin`, or without `direction` *)
NoVector == [absent |-> TRUE]

(* what the shoot handler computes from its payload before the pellet loop *)
ShotOf(shooter, data) ==
    LET weapon == IF data.weapon # "" THEN data.weapon
                  ELSE IF shooter.weapon # "" THEN shooter.weapon ELSE "rifle"
    IN [origin |-> IF data.origin = NoVector
                   THEN [x |-> shooter.x, y |-> shooter.y, z |-> shooter.z]
                   ELSE data.origin,
        direction |-> Normalise(IF data.direction = NoVector
                                THEN [x |-> 0, y |-> 0, z |-> -1]
                                ELSE data.direction),
        weapon |-> weapon,
        maxRange |-> TableOr(WEAPON_RANGE, weapon, 1200),
        damage |-> TableOr(WEAPON_DAMAGE, weapon, 25),
        pellets |-> TableOr(WEAPON_PELLETS, weapon, 1)]

(* socket.on('shoot'). The three draws of a shotgun pellet's spread are taken to
   leave the pellet on the axis of the shot (the second and third draw 0.5, so
   that only the component along the axis is changed and the division by the
   length restores the direction): the pellets of one shot fly the same line *)
Shoot(sock, data) ==
    /\ sock \in Connected(sockets)
    /\ IF sock \notin DOMAIN playerRooms THEN Ignore
       ELSE IF playerRooms[sock] \notin DOMAIN rooms THEN Ignore
       ELSE IF rooms[playerRooms[sock]].state # "playing" THEN Ignore
       ELSE IF ~HasPlayer(rooms[playerRooms[sock]], sock) THEN Ignore
       ELSE IF ~GetPlayer(rooms[playerRooms[sock]], sock).alive THEN Ignore
       ELSE \E roomId \in {playerRooms[sock]} :
            \E room \in {rooms[roomId]} :
            \E shot \in {ShotOf(GetPlayer(room, sock), data)} :
            \E f \in {Pellets([players |-> room.players, queue |-> room.respawnQueue,
                               out |-> <<Msg("playerShot",
                                             InChannel(channels, roomId) \ {sock},
                                             [id |-> sock, origin |-> shot.origin,
                                              direction |-> shot.direction,
                                              weapon |-> shot.weapon])>>],
                              shot.pellets, sock, roomId, shot.origin, shot.direction,
                              shot.maxRange, shot.damage, room.maze, channels)} :
               /\ Commit([Server EXCEPT !.rooms[roomId].players = f.players,
                                        !.rooms[roomId].respawnQueue = f.queue,
                                        !.out = f.out])
               /\ Done("shoot", sock)
    /\ UNCHANGED <<sockets, nextRoomId, disconnectTimers, timers, nMoves>>

(* npcKill without the test of the room's state *)
NpcKillAnyState(sock) ==
    /\ sock \in Connected(sockets)
    /\ IF sock \notin DOMAIN playerRooms THEN Ignore
       ELSE IF playerRooms[sock] \notin DOMAIN rooms THEN Ignore
       ELSE IF ~HasPlayer(rooms[playerRooms[sock]], sock) THEN Ignore
       ELSE LET roomId == playerRooms[sock]
                i == IndexOf(rooms[roomId], sock)
            IN /\ Commit([Server EXCEPT
                            !.rooms[roomId].players[i].score = @ + SCORE_NPC_KILL])
               /\ Done("npcKill", sock)
    /\ UNCHANGED <<sockets, nextRoomId, disconnectTimers, timers, nMoves>>

(* socket.on('npcKill') *)
NpcKill(sock) ==
    /\ sock \in Connected(sockets)
    /\ IF sock \notin DOMAIN playerRooms THEN Ignore
       ELSE IF playerRooms[sock] \notin DOMAIN rooms THEN Ignore
       ELSE IF rooms[playerRooms[sock]].state # "playing" THEN Ignore
       ELSE IF ~HasPlayer(rooms[playerRooms[sock]], sock) THEN Ignore
       ELSE LET roomId == playerRooms[sock]
                i == IndexOf(rooms[roomId], sock)
            IN /\ Commit([Server EXCEPT
                            !.rooms[roomId].players[i].score = @ + SCORE_NPC_KILL])
               /\ Done("npcKill", sock)
    /\ UNCHANGED <<sockets, nextRoomId, disconnectTimers, timers, nMoves>>

(* a winner loop that keeps the last entry with the highest score *)
WinnerIndexLatest(players) ==
    LET best == {i \in DOMAIN players :
                    \A j \in DOMAIN players :
                       \/ players[j].score < players[i].score
                       \/ (players[j].score = players[i].score /\ j <= i)}
    IN IF best = {} THEN NullId ELSE CHOOSE i \in best : TRUE

(* the winner loop of bossKill: the first roster entry whose score is above all
   the entries before it and above -1; NullId if there is none *)
WinnerIndex(players) ==
    LET best == {i \in DOMAIN players :
                    /\ players[i].score > -1
                    /\ \A j \in DOMAIN players :
                          \/ players[j].score < players[i].score
                          \/ (players[j].score = players[i].score /\ i <= j)}
    IN IF best = {} THEN NullId ELSE CHOOSE i \in best : TRUE

(* the reset of the roster at the end of bossKill, scores kept *)
ResetPlayersKeepScore(players) ==
    [i \in DOMAIN players |->
        [players[i] EXCEPT !.deaths = 0, !.health = 100, !.alive = TRUE]]

(* the reset without `p.health = 100` *)
ResetPlayersKeepHealth(players) ==
    [i \in DOMAIN players |->
        [players[i] EXCEPT !.score = 0, !.deaths = 0, !.alive = TRUE]]

(* the reset of the roster at the end of bossKill *)
ResetPlayers(players) ==
    [i \in DOMAIN players |->
        [players[i] EXCEPT !.score = 0, !.deaths = 0, !.health = 100, !.alive = TRUE]]

(* socket.on('bossKill') *)
BossKill(sock) ==
    /\ sock \in Connected(sockets)
    /\ IF sock \notin DOMAIN playerRooms THEN Ignore
       ELSE IF playerRooms[sock] \notin DOMAIN rooms THEN Ignore
       ELSE IF rooms[playerRooms[sock]].state # "playing" THEN Ignore
       ELSE IF ~HasPlayer(rooms[playerRooms[sock]], sock) THEN Ignore
       ELSE LET roomId == playerRooms[sock]
                room == rooms[roomId]
                k == IndexOf(room, sock)
                players == [room.players EXCEPT ![k].score = @ + SCORE_BOSS_KILL]
                w == WinnerIndex(players)
                won == Msg("gameWon", InChannel(channels, roomId),
                           [bossKillerId |-> sock,
                            bossKillerName |-> players[k].name,
                            winnerId |-> IF w = NullId THEN sock ELSE players[w].id,
                            winnerName |-> IF w = NullId THEN players[k].name
                                           ELSE players[w].name,
                            winnerScore |-> IF w = NullId THEN -1 ELSE players[w].score,
                            scoreboard |-> [id \in {players[i].id : i \in DOMAIN players} |->
                                LET p == players[CHOOSE i \in DOMAIN players :
                                                    players[i].id = id]
                                IN [name |-> p.name, score |-> p.score,
                                    deaths |-> p.deaths]]])
                s1 == [Server EXCEPT
                         !.rooms[roomId] = [room EXCEPT !.state = "waiting",
                                                        !.maze = NoMaze,
                                                        !.players = ResetPlayers(players)],
                         !.out = <<won>>]
            IN /\ Commit(BroadcastRoomList(s1, sockets))
               /\ Done("bossKill", sock)
    /\ UNCHANGED <<sockets, nextRoomId, disconnectTimers, timers, nMoves>>

----------------------------------------------------------------------------
(* The 50 ms interval: respawns and the state broadcast *)

(* getStartSpawn(): the first cell of a fresh shuffle that is SPAWN_SPACING away
   from the cells of all living players, else the first cell of the shuffle; n
   counts the shuffles drawn before in the same tick *)
GetStartSpawn(room, players, seed, n) ==
    IF room.maze = NoMaze THEN [x |-> 60, z |-> 60]
    ELSE LET cells == ShuffleTable[room.maze.rows, seed, n]
             occupied == {[r |-> players[i].z \div CELL_SIZE,
                           c |-> players[i].x \div CELL_SIZE] :
                             i \in {j \in DOMAIN players : players[j].alive}}
             free == {i \in DOMAIN cells :
                         \A o \in occupied : Manhattan(o, cells[i]) >= SPAWN_SPACING}
             cell == IF free = {} THEN cells[1]
                     ELSE cells[CHOOSE i \in free : \A j \in free : i <= j]
         IN CellToWorld(cell.r, cell.c)

(* processRespawns() without the test of the deadline *)
RECURSIVE RespawnsFromAnyTime(_, _, _, _)
RespawnsFromAnyTime(room, f, i, seed) ==
    IF i = 0 THEN f
    ELSE LET entry == f.queue[i]
             rest == [j \in 1..(Len(f.queue) - 1) |->
                         IF j < i THEN f.queue[j] ELSE f.queue[j + 1]]
             ids == {f.players[j].id : j \in DOMAIN f.players}
         IN IF entry.playerId \notin ids
            THEN RespawnsFromAnyTime(room, [f EXCEPT !.queue = rest], i - 1, seed)
            ELSE LET k == CHOOSE j \in DOMAIN f.players :
                             f.players[j].id = entry.playerId
                     pos == GetStartSpawn(room, f.players, seed, Len(f.respawned))
                 IN RespawnsFromAnyTime(room,
                       [players |-> [f.players EXCEPT ![k].x = pos.x,
                                                      ![k].y = DefaultY,
                                                      ![k].z = pos.z,
                                                      ![k].health = 100,
                                                      ![k].alive = TRUE],
                        queue |-> rest,
                        respawned |-> Append(f.respawned,
                                        [playerId |-> entry.playerId, x |-> pos.x,
                                         y |-> DefaultY, z |-> pos.z])],
                       i - 1, seed)

(* processRespawns() from queue index i down to 1 over f = [players, queue,
   respawned]: an entry whose time has come is taken out, and its player, if
   still in the roster, is put at a start spawn with full health *)
RECURSIVE RespawnsFrom(_, _, _, _)
RespawnsFrom(room, f, i, seed) ==
    IF i = 0 THEN f
    ELSE LET entry == f.queue[i]
             rest == [j \in 1..(Len(f.queue) - 1) |->
                         IF j < i THEN f.queue[j] ELSE f.queue[j + 1]]
             ids == {f.players[j].id : j \in DOMAIN f.players}
         IN IF entry.wait > 0 THEN RespawnsFrom(room, f, i - 1, seed)
            ELSE IF entry.playerId \notin ids
            THEN RespawnsFrom(room, [f EXCEPT !.queue = rest], i - 1, seed)
            ELSE LET k == CHOOSE j \in DOMAIN f.players :
                             f.players[j].id = entry.playerId
                     pos == GetStartSpawn(room, f.players, seed, Len(f.respawned))
                 IN RespawnsFrom(room,
                       [players |-> [f.players EXCEPT ![k].x = pos.x,
                                                      ![k].y = DefaultY,
                                                      ![k].z = pos.z,
                                                      ![k].health = 100,
                                                      ![k].alive = TRUE],
                        queue |-> rest,
                        respawned |-> Append(f.respawned,
                                        [playerId |-> entry.playerId, x |-> pos.x,
                                         y |-> DefaultY, z |-> pos.z])],
                       i - 1, seed)

ProcessRespawns(room, seed) ==
    RespawnsFrom(room, [players |-> room.players, queue |-> room.respawnQueue,
                        respawned |-> <<>>],
                 Len(room.respawnQueue), seed)

(* the per-player enemy updates of a tick: one for each entry of playerEnemies, by
   socket id, whose player is in the roster and whose socket is
   connected *)
EnemyUpdates(room, socks) ==
    LET ids == SelectSeq(SortedSeq(DOMAIN room.playerEnemies),
                         LAMBDA id : HasPlayer(room, id) /\ id \in Connected(socks))
    IN [i \in DOMAIN ids |->
          LET level == GetPlayer(room, ids[i]).level
              levelMap == room.playerEnemies[ids[i]]
          IN Msg("enemyUpdate", {ids[i]},
                 [level |-> level,
                  enemies |-> IF level \in DOMAIN levelMap THEN levelMap[level]
                              ELSE <<>>])]

(* the body of the interval's loop for the rooms ids[1..], over
   s = [rooms, ..., out, thrown]. In a playing room the respawns are processed and
   announced; then the exit check calls room._isPlayerExitPos for the first living
   player whose _exitTriggered is not set. Class Room has no such method: the call
   throws a TypeError out of the callback, which ends this run of the loop (the
   uncaughtException listener keeps the process and the interval alive). The
   one-element set binds the result of processRespawns as a value *)
RECURSIVE TickRooms(_, _, _, _)
TickRooms(s, ids, socks, seed) ==
    IF Len(ids) = 0 THEN s
    ELSE IF s.rooms[ids[1]].state # "playing" THEN TickRooms(s, Tail(ids), socks, seed)
    ELSE CHOOSE result \in
           {LET room == s.rooms[ids[1]]
                after == [room EXCEPT !.players = f.players, !.respawnQueue = f.queue]
                chan == InChannel(s.channels, room.id)
                told == [i \in DOMAIN f.respawned |->
                           Msg("playerRespawned", chan,
                               [id |-> f.respawned[i].playerId,
                                x |-> f.respawned[i].x, y |-> f.respawned[i].y,
                                z |-> f.respawned[i].z])]
                throws == \E i \in DOMAIN after.players :
                             after.players[i].alive /\ ~after.players[i].exitTriggered
                s1 == [s EXCEPT !.rooms[ids[1]] = after, !.out = @ \o told]
            IN IF throws THEN [s1 EXCEPT !.thrown = TRUE]
               ELSE TickRooms([s1 EXCEPT !.out = Append(@, Msg("gameState", chan,
                                                              GetGameState(after)))
                                                \o EnemyUpdates(after, socks)],
                              Tail(ids), socks, seed) :
              f \in {ProcessRespawns(s.rooms[ids[1]], seed)}} : TRUE

(* one run of the interval's callback *)
Tick(seed) ==
    /\ \E s \in {TickRooms([rooms |-> rooms, playerRooms |-> playerRooms,
                           playerNames |-> playerNames, channels |-> channels,
                           out |-> <<>>, thrown |-> FALSE],
                          SortedSeq(DOMAIN rooms), sockets, seed)} :
          /\ Commit(s)
          /\ last' = [branch |-> IF s.thrown THEN "tickThrown" ELSE "tick",
                      sock |-> 0, handover |-> {}]
    /\ UNCHANGED <<sockets, nextRoomId, disconnectTimers, timers, nMoves, call>>

(* the passing of one unit of time: every pending respawn has one unit less to
   wait; nothing is sent *)
Elapse ==
    /\ \E r \in DOMAIN rooms : \E i \in DOMAIN rooms[r].respawnQueue :
          rooms[r].respawnQueue[i].wait > 0
    /\ rooms' = [r \in DOMAIN rooms |->
                   [rooms[r] EXCEPT !.respawnQueue =
                       [i \in DOMAIN @ |-> [@[i] EXCEPT !.wait = Max(@ - 1, 0)]]]]
    /\ emitted' = <<>>
    /\ last' = [branch |-> "elapse", sock |-> 0, handover |-> {}]
    /\ UNCHANGED <<sockets, nextRoomId, playerRooms, playerNames, disconnectTimers,
                   timers, channels, nMoves, call>>

----------------------------------------------------------------------------
(* What a client sends with `move`: a target relative to the mover's authoritative
   position, with the other fields of the payload *)
MoveInputs ==
    { [dx |-> 60, dz |-> 0, y |-> 50, yaw |-> 5, pitch |-> -3, sprinting |-> TRUE],
      [dx |-> 0, dz |-> 60, y |-> 0, yaw |-> 0, pitch |-> 0, sprinting |-> FALSE],
      [dx |-> 61, dz |-> 0, y |-> 50, yaw |-> 7, pitch |-> 2, sprinting |-> TRUE],
      [dx |-> -43, dz |-> -43, y |-> 50, yaw |-> 7, pitch |-> 2, sprinting |-> FALSE] }

MoveData(sock, in) ==
    LET room == rooms[playerRooms[sock]]
        p == GetPlayer(room, sock)
    IN [x |-> p.x + in.dx, y |-> in.y, z |-> p.z + in.dz,
        yaw |-> in.yaw, pitch |-> in.pitch, sprinting |-> in.sprinting]

InRoster(sock) ==
    /\ sock \in DOMAIN playerRooms
    /\ playerRooms[sock] \in DOMAIN rooms
    /\ HasPlayer(rooms[playerRooms[sock]], sock)

MoveOf(sock, in) ==
    IF InRoster(sock) THEN Move(sock, MoveData(sock, in))
    ELSE Move(sock, [x |-> in.dx, y |-> in.y, z |-> in.dz, yaw |-> in.yaw,
                     pitch |-> in.pitch, sprinting |-> in.sprinting])

(* Sessions: up to MaxSockets connections around MaxRooms rooms *)
Next ==
    \/ \E q \in QueryPids : Len(sockets) < MaxSockets /\ Connect(q)
    \/ \E sock \in SockIds, name \in RoomNameInputs, mp \in WideMaxPlayers :
          nextRoomId <= MaxRooms /\ CreateRoom(sock, name, mp, FALSE)
    \/ \E sock \in SockIds, roomId \in 1..MaxRooms : JoinRoom(sock, roomId)
    \/ \E sock \in SockIds : LeaveRoom(sock)
    \/ \E sock \in SockIds : StartGameHandler(sock, 0)
    \/ \E sock \in SockIds : Disconnect(sock)
    \/ \E sock \in SockIds : GraceTimer(sock)

Spec == Init /\ [][Next]_vars

(* Lobby: up to LobbySockets connections, named or not, around LobbyRooms rooms *)
NextLobby ==
    \/ \E q \in QueryPids : Len(sockets) < LobbySockets /\ Connect(q)
    \/ \E sock \in NamingSockets, name \in NameInputs : SetName(sock, name)
    \/ \E sock \in SockIds, name \in RoomNameInputs, mp \in MaxPlayersInputs :
          nextRoomId <= LobbyRooms /\ CreateRoom(sock, name, mp, FALSE)
    \/ \E sock \in SockIds, roomId \in 1..LobbyRooms : JoinRoom(sock, roomId)
    \/ \E sock \in SockIds : LeaveRoom(sock)
    \/ \E sock \in SockIds : StartGameHandler(sock, 0)
    \/ \E sock \in SockIds : Disconnect(sock)
    \/ \E sock \in SockIds : GraceTimer(sock)

SpecLobby == Init /\ [][NextLobby]_vars

(* Play: up to GameSockets connections around GameRooms rooms, with the in-game
   handlers *)
NextGame ==
    \/ \E q \in QueryPids : Len(sockets) < GameSockets /\ Connect(q)
    \/ \E sock \in SockIds, name \in RoomNameInputs, mp \in WideMaxPlayers,
          arena \in ArenaInputs :
          nextRoomId <= GameRooms /\ CreateRoom(sock, name, mp, arena)
    \/ \E sock \in SockIds, roomId \in 1..GameRooms : JoinRoom(sock, roomId)
    \/ \E sock \in SockIds : LeaveRoom(sock)
    \/ \E sock \in SockIds, seed \in Seeds : StartGameHandler(sock, seed)
    \/ \E sock \in SockIds, in \in MoveInputs : nMoves < MaxMoves /\ MoveOf(sock, in)
    \/ \E sock \in SockIds : Disconnect(sock)
    \/ \E sock \in SockIds : GraceTimer(sock)

SpecGame == Init /\ [][NextGame]_vars

(* What a client sends with `shoot`: no origin (at = 0), or an origin `back` west
   of the roster entry of socket `at` at that entry's height; a direction or none;
   a weapon name or none *)
ShootInputs ==
    { [at |-> 0, back |-> 0, direction |-> NoVector, weapon |-> ""],
      [at |-> 1, back |-> 20, direction |-> [x |-> 1, y |-> 0, z |-> 0], weapon |-> ""],
      [at |-> 2, back |-> 20, direction |-> [x |-> 2, y |-> 0, z |-> 0],
       weapon |-> "shotgun"],
      [at |-> 2, back |-> 20, direction |-> [x |-> 1, y |-> 0, z |-> 0],
       weapon |-> "pistol"] }

ShootData(sock, in) ==
    [origin |-> IF in.at # 0 /\ InRoster(sock)
                   /\ HasPlayer(rooms[playerRooms[sock]], in.at)
                THEN LET p == GetPlayer(rooms[playerRooms[sock]], in.at)
                     IN [x |-> p.x - in.back, y |-> p.y, z |-> p.z]
                ELSE NoVector,
     direction |-> in.direction,
     weapon |-> in.weapon]

(* the shots of ShootInputs that are aimed at a player with a rifle or a shotgun *)
AimedInputs == {in \in ShootInputs : in.at # 0 /\ in.weapon # "pistol"}

(* the number of pending respawns in the rooms *)
RECURSIVE Pending(_)
Pending(ids) ==
    IF ids = {} THEN 0
    ELSE LET r == CHOOSE x \in ids : TRUE
         IN Len(rooms[r].respawnQueue) + Pending(ids \ {r})

(* the highest score in the rooms *)
TopScore ==
    LET all == UNION {{rooms[r].players[i].score : i \in DOMAIN rooms[r].players} :
                         r \in DOMAIN rooms}
    IN IF all = {} THEN 0 ELSE CHOOSE m \in all : \A n \in all : n <= m

(* Combat: up to FightSockets connections without a token around FightRooms rooms,
   with shots that are not aimed at the shooter, kills, the interval and the passing of time, until a score reaches
   MaxScore or MaxPending respawns are pending *)
NextFight ==
    \/ \E q \in NoToken : Len(sockets) < FightSockets /\ Connect(q)
    \/ \E sock \in SockIds, name \in RoomNameInputs, mp \in WideMaxPlayers :
          nextRoomId <= FightRooms /\ CreateRoom(sock, name, mp, FALSE)
    \/ \E sock \in SockIds, roomId \in 1..FightRooms : JoinRoom(sock, roomId)
    \/ \E sock \in SockIds : StartGameHandler(sock, 0)
    \/ \E sock \in SockIds, in \in ShootInputs :
          /\ in.at # sock
          /\ TopScore < MaxScore
          /\ Pending(DOMAIN rooms) < MaxPending
          /\ Shoot(sock, ShootData(sock, in))
    \/ \E sock \in SockIds : BossKill(sock)
    \/ Tick(0)
    \/ Elapse

SpecFight == Init /\ [][NextFight]_vars

(* Respawns: up to RespawnSockets connections around RespawnRooms rooms that
   clients in no room create and join, with shots, the interval and the passing of time. The interval fires every 50 ms
   and time passes, whatever the clients do: both are weakly fair *)
NextRespawn ==
    \/ \E q \in NoToken : Len(sockets) < RespawnSockets /\ Connect(q)
    \/ \E sock \in SockIds, name \in RoomNameInputs, mp \in WideMaxPlayers :
          /\ nextRoomId <= RespawnRooms
          /\ sock \notin DOMAIN playerRooms
          /\ CreateRoom(sock, name, mp, FALSE)
    \/ \E sock \in SockIds, roomId \in 1..RespawnRooms :
          sock \notin DOMAIN playerRooms /\ JoinRoom(sock, roomId)
    \/ \E sock \in SockIds : StartGameHandler(sock, 0)
    \/ \E sock \in SockIds, in \in AimedInputs :
          /\ in.at # sock
          /\ TopScore < MaxScore
          /\ Pending(DOMAIN rooms) < MaxPending
          /\ Shoot(sock, ShootData(sock, in))
    \/ Tick(0)
    \/ Elapse

SpecRespawn ==
    Init /\ [][NextRespawn]_vars /\ WF_vars(Tick(0)) /\ WF_vars(Elapse)

(* A room for two: up to PairSockets connections around PairRooms rooms created
   with maxPlayers = 2, as mazes or as flat arenas *)
NextPair ==
    \/ \E q \in QueryPids : Len(sockets) < PairSockets /\ Connect(q)
    \/ \E sock \in SockIds, name \in RoomNameInputs, mp \in PairMaxPlayers,
          arena \in ArenaInputs :
          nextRoomId <= PairRooms /\ CreateRoom(sock, name, mp, arena)
    \/ \E sock \in SockIds, roomId \in 1..PairRooms : JoinRoom(sock, roomId)
    \/ \E sock \in SockIds : LeaveRoom(sock)
    \/ \E sock \in SockIds, seed \in Seeds : StartGameHandler(sock, seed)
    \/ \E sock \in SockIds : Disconnect(sock)
    \/ \E sock \in SockIds : GraceTimer(sock)

SpecPair == Init /\ [][NextPair]_vars

(* the score of sock in its room, 0 outside a roster *)
ScoreOf(sock) ==
    IF InRoster(sock) THEN GetPlayer(rooms[playerRooms[sock]], sock).score ELSE 0

(* the shots of ShootInputs that are fired with a shotgun *)
ShotgunInputs == {in \in ShootInputs : in.weapon = "shotgun"}

(* The end of a round: up to BossSockets connections without a token around
   BossRooms rooms that clients in no room create and join; the clients of
   NpcHunters report NPC kills until their score is MaxNpcScore, shotgun shots are
   fired once a score has reached MaxNpcScore and until one has killed, any
   client reports the boss kill, and a round starts when no respawn is pending *)
NextBoss ==
    \/ \E q \in NoToken : Len(sockets) < BossSockets /\ Connect(q)
    \/ \E sock \in SockIds, name \in RoomNameInputs, mp \in WideMaxPlayers :
          /\ nextRoomId <= BossRooms
          /\ sock \notin DOMAIN playerRooms
          /\ CreateRoom(sock, name, mp, FALSE)
    \/ \E sock \in SockIds, roomId \in 1..BossRooms :
          sock \notin DOMAIN playerRooms /\ JoinRoom(sock, roomId)
    \/ \E sock \in SockIds : Pending(DOMAIN rooms) = 0 /\ StartGameHandler(sock, 0)
    \/ \E sock \in NpcHunters : ScoreOf(sock) < MaxNpcScore /\ NpcKill(sock)
    \/ \E sock \in SockIds, in \in ShotgunInputs :
          /\ in.at # sock
          /\ TopScore = MaxNpcScore
          /\ Pending(DOMAIN rooms) < MaxPending
          /\ Shoot(sock, ShootData(sock, in))
    \/ \E sock \in SockIds : BossKill(sock)

SpecBoss == Init /\ [][NextBoss]_vars

----------------------------------------------------------------------------
(* The functions of maze.js, room.js and collision.js on their own: `call` holds
   the arguments and the progress of one call; the server's collections stay as
   they are when the module has been loaded *)

ServerIdle ==
    UNCHANGED <<sockets, rooms, nextRoomId, playerRooms, playerNames,
                disconnectTimers, timers, channels, nMoves, emitted, last>>

(* generateMaze(rows, cols), one iteration of its loop at a time; which of the
   unvisited neighbours Math.random() picks is free *)
MazeSides == 1..MaxMazeSide

InitMaze ==
    /\ Boot
    /\ \E rows \in MazeSides, cols \in MazeSides :
          call = [fn |-> "generateMaze", rows |-> rows, cols |-> cols,
                  st |-> MazeStart(rows, cols), steps |-> 0]

(* one iteration of `while (stack.length > 0)` *)
MazeLoopStep ==
    /\ call.fn = "generateMaze"
    /\ Len(call.st.stack) > 0
    /\ \E pick \in 0..Max(Len(Neighbours(call.rows, call.cols, call.st)) - 1, 0) :
          call' = [call EXCEPT !.st = MazeStep(call.rows, call.cols, @, pick),
                               !.steps = @ + 1]
    /\ ServerIdle

SpecMaze == InitMaze /\ [][MazeLoopStep]_vars

(* _pickSpacedSpawns(count, rows, cols) after its shuffle. The shuffle can leave
   the cells in any order; the orders examined are those the model's draws give,
   the row-major order reversed, and an order that begins with the cells of
   SpreadFirst, which are 5 or more apart from each other and leave no cell of a
   19 x 19 grid 5 or more away from all of them *)
SpawnSides == {1, 2, 5, 10, 19}

SpreadFirst ==
    << [r |-> 0, c |-> 10], [r |-> 4, c |-> 5], [r |-> 5, c |-> 14],
       [r |-> 8, c |-> 0], [r |-> 9, c |-> 9], [r |-> 10, c |-> 18],
       [r |-> 13, c |-> 4], [r |-> 14, c |-> 13], [r |-> 18, c |-> 8],
       [r |-> 0, c |-> 0], [r |-> 0, c |-> 18], [r |-> 16, c |-> 1],
       [r |-> 16, c |-> 16] >>

Reversed(cells) == [i \in DOMAIN cells |-> cells[Len(cells) + 1 - i]]

SpreadOrder(rows, cols) ==
    LET first == SelectSeq(SpreadFirst, LAMBDA cell : cell.r < rows /\ cell.c < cols)
    IN first \o SelectSeq(AllCells(rows, cols), LAMBDA cell : ~InSeq(cell, first))

ShuffleOutcomes(rows, cols) ==
    {Shuffle(AllCells(rows, cols), seed, 0) : seed \in Seeds}
    \cup {Reversed(AllCells(rows, cols)), SpreadOrder(rows, cols)}

(* the counts for which the grid has SPAWN_SPACING^2 cells each, one more, and
   as many as the grid has cells *)
SpawnCounts(rows, cols) ==
    {count \in 1..(rows * cols) :
        \/ count <= (rows * cols) \div (SPAWN_SPACING * SPAWN_SPACING) + 1
        \/ count = rows * cols}

InitSpawns ==
    /\ Boot
    /\ \E rows \in SpawnSides, cols \in SpawnSides :
       \E count \in SpawnCounts(rows, cols), cells \in ShuffleOutcomes(rows, cols) :
          call = [fn |-> "_pickSpacedSpawns", rows |-> rows, cols |-> cols,
                  count |-> count, cells |-> cells, done |-> FALSE, chosen |-> <<>>]

(* the greedy pass and the fallback pass, to the return *)
PickSpawns ==
    /\ call.fn = "_pickSpacedSpawns"
    /\ ~call.done
    /\ call' = [call EXCEPT !.done = TRUE,
                            !.chosen = SpawnsOfShuffled(call.cells, call.count)]
    /\ ServerIdle

SpecSpawns == InitSpawns /\ [][PickSpawns]_vars

(* isBlocked(maze, x, z, radius) for the mazes startGame gives a room: generated
   or all open, of the sizes of GridSides; the positions lie around the four
   edges of the grid, inside and outside, and the radii are 0, 0.05 (the rays),
   0.4 (the players) and more than a cell *)
PlayingMazes ==
    {MazeTable[side, seed] : side \in GridSides, seed \in Seeds}
    \cup {ArenaMaze(side, side) : side \in GridSides}

EdgeOffsets == {-121, -9, -8, -1, 0, 60}

Coordinates(cells) == EdgeOffsets \cup {cells * CELL_SIZE + o : o \in EdgeOffsets}

Radii == {0, 1, 8, 130}

InitBlocked ==
    /\ Boot
    /\ \E maze \in PlayingMazes, radius \in Radii :
       \E x \in Coordinates(maze.cols), z \in Coordinates(maze.rows) :
          call = [fn |-> "isBlocked", maze |-> maze, x |-> x, z |-> z,
                  radius |-> radius, done |-> FALSE, blocked |-> FALSE]

CallIsBlocked ==
    /\ call.fn = "isBlocked"
    /\ ~call.done
    /\ call' = [call EXCEPT !.done = TRUE,
                            !.blocked = IsBlocked(call.maze, call.x, call.z,
                                                  call.radius)]
    /\ ServerIdle

SpecBlocked == InitBlocked /\ [][CallIsBlocked]_vars

(* raycastPlayers(origin, direction, maxRange, players, shooterId, maze) in the
   generated mazes: the shooter stands in a cell, on its centre or RayOffsets
   further along the ray, and aims along an axis at a living player on the centre
   of the next cell; the range is the rifle's *)
RayMazes == {MazeTable[side, seed] : side \in GridSides, seed \in Seeds}

RayOffsets == {0, 2}

(* a roster entry as raycastPlayers reads it *)
RayPlayer(id, x, z, alive) == [id |-> id, x |-> x, y |-> DefaultY, z |-> z, alive |-> alive]

InitRay ==
    /\ Boot
    /\ \E maze \in RayMazes, i \in DOMAIN DIRS, off \in RayOffsets :
       \E r \in 0..(maze.rows - 1), c \in 0..(maze.cols - 1) :
          LET from == CellToWorld(r, c)
              to == CellToWorld(r + DIRS[i].dr, c + DIRS[i].dc)
              origin == [x |-> from.x + DIRS[i].dc * off, y |-> DefaultY,
                         z |-> from.z + DIRS[i].dr * off]
          IN /\ r + DIRS[i].dr \in 0..(maze.rows - 1)
             /\ c + DIRS[i].dc \in 0..(maze.cols - 1)
             /\ call = [fn |-> "raycastPlayers", maze |-> maze,
                        cell |-> [r |-> r, c |-> c], side |-> DIRS[i].name,
                        origin |-> origin,
                        direction |-> [x |-> DIRS[i].dc, y |-> 0, z |-> DIRS[i].dr],
                        maxRange |-> WEAPON_RANGE.rifle,
                        players |-> <<RayPlayer(1, origin.x, origin.z, TRUE),
                                      RayPlayer(2, to.x, to.z, TRUE)>>,
                        shooterId |-> 1, done |-> FALSE, targetId |-> NullId]

CallRaycastPlayers ==
    /\ call.fn = "raycastPlayers"
    /\ ~call.done
    /\ call' = [call EXCEPT !.done = TRUE,
                            !.targetId = RaycastPlayers(call.origin, call.direction,
                                                        call.maxRange, call.players,
                                                        call.shooterId, call.maze)]
    /\ ServerIdle

SpecRay == InitRay /\ [][CallRaycastPlayers]_vars

(* One pass of the pellet loop of the shoot handler on a roster of three players
   that stand in a row of a flat arena, on the centres of its first three cells in
   any order, each dead (health 0) or alive with health 25 or 100. A living one
   of them fires a rifle along the row, one way or the other, from where it
   stands or from the cell centre that the payload names *)
RowCentres == {60, 180, 300}

HealthInputs == {0, 25, 100}

(* the roster entry of a player that joined as id, put at (x, 60) with health h *)
Fighter(id, x, h) ==
    [GetPlayer(AddPlayer(NewRoom(1, RoomDefaultName, 0, id), id, <<>>, "rifle",
                         Undefined), id)
       EXCEPT !.x = x, !.z = 60, !.health = h, !.alive = (h > 0),
              !.deaths = IF h > 0 THEN 0 ELSE 1]

InitPellet ==
    /\ Boot
    /\ \E xs \in [1..3 -> RowCentres], hs \in [1..3 -> HealthInputs] :
       \E shooterId \in 1..3, dx \in {-1, 1}, ox \in RowCentres :
          /\ \A i, j \in 1..3 : i # j => xs[i] # xs[j]
          /\ hs[shooterId] > 0
          /\ call = [fn |-> "pellet",
                     maze |-> ArenaMaze(6, 6),
                     players |-> [i \in 1..3 |-> Fighter(i, xs[i], hs[i])],
                     shooterId |-> shooterId,
                     origin |-> [x |-> ox, y |-> DefaultY, z |-> 60],
                     direction |-> [x |-> dx, y |-> 0, z |-> 0],
                     done |-> FALSE,
                     after |-> [players |-> <<>>, queue |-> <<>>, out |-> <<>>]]

FirePellet ==
    /\ call.fn = "pellet"
    /\ ~call.done
    /\ call' = [call EXCEPT
                  !.done = TRUE,
                  !.after = Pellet([players |-> call.players, queue |-> <<>>,
                                    out |-> <<>>],
                                   call.shooterId, 1, call.origin, call.direction,
                                   WEAPON_RANGE.rifle, WEAPON_DAMAGE.rifle, call.maze,
                                   [i \in 1..3 |-> {1}])]
    /\ ServerIdle

SpecPellet == InitPellet /\ [][FirePellet]_vars

----------------------------------------------------------------------------
(* Reading a step: which handler ran, from the collections before and after *)

(* the step is the connection handler of a new socket presenting token pid *)
ConnectedWith(pid) ==
    /\ Len(sockets') = Len(sockets) + 1
    /\ sockets'[Len(sockets')].persistentId = pid

(* the step is the disconnect handler of sock *)
Disconnected(sock) ==
    /\ sock \in Connected(sockets)
    /\ sock \notin Connected(sockets')

(* the step is the grace-timer callback of sock: its timer is gone and no socket
   connected, so it was not cancelled *)
TimerFired(sock) ==
    /\ sock \in timers
    /\ sock \notin timers'
    /\ sockets' = sockets

(* the rooms whose roster holds sock *)
RoomsOf(rms, sock) == {r \in DOMAIN rms : HasPlayer(rms[r], sock)}

Sent(out, type) == {i \in DOMAIN out : out[i].type = type /\ out[i].to # {}}

----------------------------------------------------------------------------
(* Reconnection *)

(* C1: when a socket presenting token t connects while the grace timer of a
   disconnected socket with token t, whose player is in a room, is pending, that
   timer is cancelled: it is no longer pending after the connection handler.
   Violated: disconnectTimers holds one timer per token, so of two pending timers of
   one token the connection handler clears only the one stored last, and the other
   fires and removes its player. *)
C1_ReconnectCancelsTimer ==
    [][\A sock \in timers :
          (InRoster(sock) /\ ConnectedWith(sockets[sock].persistentId))
              => sock \notin timers']_vars

(* C2: when a socket c2 connects presenting the token of a socket c1 whose player
   is in a roster, the connection handler moves that player under c2: c2 is in the
   roster and c1 is not, the index maps c2 and not c1 to the room, and the player's
   score, position, health and alive flag are kept.
   Violated: addPlayer drops the token its callers pass, no roster entry carries a
   persistentId, and the reattach pass finds nothing to move. *)
C2_ReconnectRebindsPlayer ==
    [][\A c1 \in DOMAIN sockets :
          (/\ sockets[c1].persistentId # Null
           /\ InRoster(c1)
           /\ ConnectedWith(sockets[c1].persistentId))
          => LET c2 == Len(sockets')
                 r == playerRooms[c1]
                 old == GetPlayer(rooms[r], c1)
             IN /\ r \in DOMAIN rooms'
                /\ HasPlayer(rooms'[r], c2)
                /\ ~HasPlayer(rooms'[r], c1)
                /\ c2 \in DOMAIN playerRooms' /\ playerRooms'[c2] = r
                /\ c1 \notin DOMAIN playerRooms'
                /\ LET new == GetPlayer(rooms'[r], c2)
                   IN <<new.score, new.x, new.y, new.z, new.health, new.alive>>
                      = <<old.score, old.x, old.y, old.z, old.health, old.alive>>]_vars

----------------------------------------------------------------------------
(* Grace timers and cleanup *)

(* C3: a player whose socket disconnected with a token stays in its roster as long
   as the grace timer has not fired; when the timer fires the player is in no
   roster, the index and the name map have no entry for its socket, the room it
   was alone in is gone from the registry, and the room list of the registry as it
   is then goes to every connected socket. *)
C3_GraceTimerCleansUp ==
    [][\A sock \in timers :
          /\ (InRoster(sock) /\ ~TimerFired(sock)) => RoomsOf(rooms', sock) # {}
          /\ TimerFired(sock) =>
                /\ RoomsOf(rooms', sock) = {}
                /\ sock \notin DOMAIN playerRooms'
                /\ sock \notin DOMAIN playerNames'
                /\ \A r \in RoomsOf(rooms, sock) :
                      PlayerIds(rooms[r]) = {sock} => r \notin DOMAIN rooms'
                /\ \E i \in DOMAIN emitted' :
                      emitted'[i] = Msg("roomList", Connected(sockets'), RoomList(rooms'))
      ]_vars

(* the grace timer of a socket has fired and taken its player out of a room where
   another player, who is told, remains *)
C3_Witness ==
    /\ last.branch = "timer"
    /\ sockets[last.sock].persistentId # Null
    /\ \E i \in Sent(emitted, "playerLeft") : emitted[i].data.id = last.sock
    /\ RoomsOf(rooms, last.sock) = {}

(* C4: when a socket that presented no token disconnects, the disconnect handler
   leaves its player in no roster, leaves no entry for it in the index and in the
   name map, and starts no timer. *)
C4_NoTokenCleanupAtOnce ==
    [][\A sock \in DOMAIN sockets :
          (Disconnected(sock) /\ sockets[sock].persistentId = Null) =>
              /\ RoomsOf(rooms', sock) = {}
              /\ sock \notin DOMAIN playerRooms'
              /\ sock \notin DOMAIN playerNames'
              /\ timers' = timers
              /\ disconnectTimers' = disconnectTimers
      ]_vars

(* a named socket without a token has disconnected from a room where another
   player, who is told, remains *)
C4_Witness ==
    /\ last.branch = "cleanup"
    /\ sockets[last.sock].persistentId = Null
    /\ last.sock \in NamingSockets
    /\ \E i \in Sent(emitted, "playerLeft") : emitted[i].data.id = last.sock
    /\ timers = {}

----------------------------------------------------------------------------
(* Protocol violations *)

(* C5: a joinRoom for a room that is not in the registry, whose roster has
   maxPlayers entries or more, or that is playing, emits one message, an error to
   the requester, and changes none of the collections: the target's roster and the
   requester's own room, membership and creator role are what they were. *)
C5_RefusedJoinChangesNothing ==
    [][\A sock \in DOMAIN sockets, roomId \in 1..LobbyRooms :
          (/\ JoinRoom(sock, roomId)
           /\ \/ roomId \notin DOMAIN rooms
              \/ Len(rooms[roomId].players) >= rooms[roomId].maxPlayers
              \/ rooms[roomId].state = "playing")
          => /\ Len(emitted') = 1
             /\ emitted'[1].type = "error"
             /\ emitted'[1].to = {sock}
             /\ UNCHANGED <<sockets, rooms, nextRoomId, playerRooms, playerNames,
                            disconnectTimers, timers, channels>>
      ]_vars

(* the creator of a waiting room has asked to join another room, which is playing,
   and got the error *)
C5_Witness ==
    /\ last.branch = "joinRefused"
    /\ emitted = <<Msg("error", {last.sock}, [message |-> "Game already in progress"])>>
    /\ InRoster(last.sock)
    /\ rooms[playerRooms[last.sock]].creatorId = last.sock
    /\ rooms[playerRooms[last.sock]].state = "waiting"

(* C6: a startGame from a member that is not its room's creator emits an error to
   that member and no gameStarted and leaves the registry as it was (state, maze
   and every player); and a room goes from waiting to playing only in a startGame
   of its creator. *)
C6_OnlyCreatorStarts ==
    [][/\ \A sock \in DOMAIN sockets :
             (/\ InRoster(sock)
              /\ rooms[playerRooms[sock]].creatorId # sock
              /\ \E seed \in Seeds : StartGameHandler(sock, seed))
             => /\ Sent(emitted', "error") # {}
                /\ \A i \in Sent(emitted', "error") : emitted'[i].to = {sock}
                /\ Sent(emitted', "gameStarted") = {}
                /\ rooms' = rooms
       /\ \A r \in DOMAIN rooms :
             (/\ rooms[r].state = "waiting"
              /\ r \in DOMAIN rooms'
              /\ rooms'[r].state = "playing")
             => \E seed \in Seeds : StartGameHandler(rooms[r].creatorId, seed)
      ]_vars

(* a member that is not the creator has asked to start its waiting room and got the
   error *)
C6_Witness ==
    /\ last.branch = "startRefused"
    /\ InRoster(last.sock)
    /\ rooms[playerRooms[last.sock]].creatorId # last.sock
    /\ rooms[playerRooms[last.sock]].state = "waiting"
    /\ rooms[playerRooms[last.sock]].maze = NoMaze
    /\ Sent(emitted, "error") # {}

----------------------------------------------------------------------------
(* The registry *)

(* C7: after every handler no room of the registry has an empty roster. *)
C7_NoEmptyRoom ==
    \A r \in DOMAIN rooms : rooms[r].players # <<>>

(* leaveRoom has taken the last player out of room 1: nobody was left to be told,
   room 1 is gone, and room 2, whose players are all listening, is there *)
C7_Witness ==
    /\ last.branch = "leaveRoom"
    /\ \E i \in DOMAIN emitted :
          emitted[i] = Msg("playerLeft", {}, [id |-> last.sock])
    /\ DOMAIN rooms = {2}
    /\ PlayerIds(rooms[2]) \subseteq InChannel(channels, 2)

(* C8: when a step takes the creator out of a room where players remain, the
   creator is then the remaining player that joined first; when it takes out
   others only, the creator is the same; and the creator of a room of the registry
   is in its roster. *)
C8_CreatorIsEarliestRemaining ==
    [][\A r \in DOMAIN rooms \cap DOMAIN rooms' :
          LET before == rooms[r]
              after == rooms'[r]
              removed == PlayerIds(before) \ PlayerIds(after)
              stayed == SelectSeq(before.players,
                                  LAMBDA p : p.id \in PlayerIds(after))
          IN /\ (before.creatorId \in removed /\ Len(stayed) > 0)
                    => after.creatorId = stayed[1].id
             /\ (removed # {} /\ before.creatorId \notin removed)
                    => after.creatorId = before.creatorId
             /\ after.creatorId \in PlayerIds(after)
      ]_vars

(* the creator has left a room where two players remain, and the one of them that
   joined first is the creator *)
C8_Witness ==
    \E h \in last.handover :
        /\ h[1] \in DOMAIN rooms
        /\ Len(rooms[h[1]].players) = 2
        /\ ~HasPlayer(rooms[h[1]], h[2])
        /\ h[3] = rooms[h[1]].players[1].id
        /\ rooms[h[1]].creatorId = h[3]

----------------------------------------------------------------------------
(* Movement *)

(* the living player of sock in a playing room, if there is one *)
Playing(sock) ==
    /\ InRoster(sock)
    /\ rooms[playerRooms[sock]].state = "playing"
    /\ GetPlayer(rooms[playerRooms[sock]], sock).alive

Position(p) == [x |-> p.x, y |-> p.y, z |-> p.z]

(* C9: a move of a living player of a playing room to a target whose squared
   horizontal distance from the authoritative position P is more than maxMoveDist
   squared leaves x, y, z, yaw, pitch and sprinting as they were, sends the mover a
   positionCorrection carrying P, and sends no playerMoved. *)
C9_TeleportRejected ==
    [][\A sock \in DOMAIN sockets, in \in MoveInputs :
          (/\ Playing(sock)
           /\ in.dx * in.dx + in.dz * in.dz > MaxMoveDist * MaxMoveDist
           /\ Move(sock, MoveData(sock, in)))
          => LET r == playerRooms[sock]
                 old == GetPlayer(rooms[r], sock)
                 new == GetPlayer(rooms'[r], sock)
             IN /\ <<new.x, new.y, new.z, new.yaw, new.pitch, new.sprinting>>
                   = <<old.x, old.y, old.z, old.yaw, old.pitch, old.sprinting>>
                /\ \E i \in DOMAIN emitted' :
                      emitted'[i] = Msg("positionCorrection", {sock}, Position(old))
                /\ \A i \in DOMAIN emitted' :
                      /\ emitted'[i].type # "playerMoved"
                      /\ emitted'[i].type = "positionCorrection"
                            => emitted'[i].data = Position(old)
      ]_vars

(* a player that had moved, sprinting, has asked for a move beyond the limit and
   got the correction to where it is *)
C9_Witness ==
    /\ last.branch = "teleport"
    /\ Playing(last.sock)
    /\ LET p == GetPlayer(rooms[playerRooms[last.sock]], last.sock)
       IN /\ p.sprinting
          /\ emitted = <<Msg("positionCorrection", {last.sock}, Position(p))>>

(* C10: a move of a living player of a playing room to a target within the limit
   that isBlocked finds blocked for a radius of 0.4 leaves the player's position
   and orientation as they were, sends the mover a positionCorrection carrying the
   authoritative position, and sends no error and no playerMoved. *)
C10_BlockedMoveRejected ==
    [][\A sock \in DOMAIN sockets, in \in MoveInputs :
          (/\ Playing(sock)
           /\ in.dx * in.dx + in.dz * in.dz <= MaxMoveDist * MaxMoveDist
           /\ LET old == GetPlayer(rooms[playerRooms[sock]], sock)
              IN IsBlocked(rooms[playerRooms[sock]].maze,
                           old.x + in.dx, old.z + in.dz, MoveRadius)
           /\ Move(sock, MoveData(sock, in)))
          => LET r == playerRooms[sock]
                 old == GetPlayer(rooms[r], sock)
                 new == GetPlayer(rooms'[r], sock)
             IN /\ <<new.x, new.y, new.z, new.yaw, new.pitch>>
                   = <<old.x, old.y, old.z, old.yaw, old.pitch>>
                /\ \E i \in DOMAIN emitted' :
                      emitted'[i] = Msg("positionCorrection", {sock}, Position(old))
                /\ \A i \in DOMAIN emitted' :
                      emitted'[i].type \notin {"error", "playerMoved"}
      ]_vars

(* in a maze with walls, a player that had moved has asked for a move into a wall
   and got the correction to where it is *)
C10_Witness ==
    /\ last.branch = "blocked"
    /\ Playing(last.sock)
    /\ ~rooms[playerRooms[last.sock]].flatArena
    /\ LET p == GetPlayer(rooms[playerRooms[last.sock]], last.sock)
       IN /\ p.yaw # 0
          /\ emitted = <<Msg("positionCorrection", {last.sock}, Position(p))>>

(* C11: a move of a living player of a playing room to a target within the limit
   that isBlocked does not find blocked sets the player's x, z, y, yaw, pitch and
   sprinting to the requested values and emits one playerMoved, carrying the new
   position, to the other sockets of the room and to them only.
   Violated: after the assignments the handler calls room._isPlayerExitPos, which
   class Room does not define; the TypeError is caught by the handler's catch and
   the playerMoved broadcast behind the call is never reached. *)
C11_AcceptedMoveIsBroadcast ==
    [][\A sock \in DOMAIN sockets, in \in MoveInputs :
          (/\ Playing(sock)
           /\ in.dx * in.dx + in.dz * in.dz <= MaxMoveDist * MaxMoveDist
           /\ LET old == GetPlayer(rooms[playerRooms[sock]], sock)
              IN ~IsBlocked(rooms[playerRooms[sock]].maze,
                            old.x + in.dx, old.z + in.dz, MoveRadius)
           /\ Move(sock, MoveData(sock, in)))
          => LET r == playerRooms[sock]
                 data == MoveData(sock, in)
                 new == GetPlayer(rooms'[r], sock)
                 moved == Sent(emitted', "playerMoved")
             IN /\ <<new.x, new.z, new.yaw, new.pitch, new.sprinting>>
                   = <<data.x, data.z, data.yaw, data.pitch, data.sprinting>>
                /\ Cardinality(moved) = 1
                /\ \A i \in moved :
                      /\ emitted'[i].to = InChannel(channels, r) \ {sock}
                      /\ <<emitted'[i].data.x, emitted'[i].data.y, emitted'[i].data.z>>
                         = <<new.x, new.y, new.z>>
      ]_vars

----------------------------------------------------------------------------
(* Reading a shot: the pellet loop of the shot that socket `sock` fires with
   payload `data`, after p pellets, starting from no messages *)
ShotAfter(sock, data, p) ==
    LET roomId == playerRooms[sock]
        room == rooms[roomId]
        shot == ShotOf(GetPlayer(room, sock), data)
    IN Pellets([players |-> room.players, queue |-> room.respawnQueue, out |-> <<>>],
               p, sock, roomId, shot.origin, shot.direction, shot.maxRange,
               shot.damage, room.maze, channels)

(* whom the next pellet of that shot hits when the loop is in state f *)
ShotTarget(sock, data, f) ==
    LET room == rooms[playerRooms[sock]]
        shot == ShotOf(GetPlayer(room, sock), data)
    IN RaycastPlayers(shot.origin, shot.direction, shot.maxRange, f.players, sock,
                      room.maze)

(* the damage of a weapon as the rules of the game state it *)
DamageOf(weapon) ==
    CASE weapon = "rifle" -> 25
      [] weapon = "pistol" -> 20
      [] weapon = "shotgun" -> 15

ById(players, id) == players[CHOOSE i \in DOMAIN players : players[i].id = id]

Tally(players) == [i \in DOMAIN players |-> <<players[i].score, players[i].deaths>>]

(* the step is the shot of socket `sock` with the input `in` *)
ShotBy(sock, in) ==
    /\ last'.branch = "shoot"
    /\ last'.sock = sock
    /\ Shoot(sock, ShootData(sock, in))

(* C12: when a pellet of A's shot hits a living B whose health stays above zero, B
   loses the weapon's damage (25 rifle, 20 pistol, 15 a shotgun pellet) and stays
   alive, the pellet emits playerDamaged with the new health to B and hitConfirmed
   with the damage and the new health to A and nothing else, no score and no
   death counter changes and the respawn queue is left as it is. *)
C12_NonLethalHit ==
    [][\A sock \in SockIds, in \in ShootInputs :
          ShotBy(sock, in) =>
            \A data \in {ShootData(sock, in)} :
            \A weapon \in {ShotOf(GetPlayer(rooms[playerRooms[sock]], sock),
                                  data).weapon} :
            /\ rooms'[playerRooms[sock]].players
                  = ShotAfter(sock, data, TableOr(WEAPON_PELLETS, weapon, 1)).players
            /\ \A p \in 1..TableOr(WEAPON_PELLETS, weapon, 1) :
               \A before \in {ShotAfter(sock, data, p - 1)} :
               \A after \in {ShotAfter(sock, data, p)} :
               \A B \in {ShotTarget(sock, data, before)} :
                  (/\ B # NullId
                   /\ ById(before.players, B).alive
                   /\ ById(before.players, B).health - DamageOf(weapon) > 0)
                  => /\ ById(after.players, B).health
                          = ById(before.players, B).health - DamageOf(weapon)
                     /\ ById(after.players, B).alive
                     /\ after.out = before.out \o
                          << Msg("playerDamaged", {B},
                                 [health |-> ById(after.players, B).health,
                                  attackerId |-> sock]),
                             Msg("hitConfirmed", {sock},
                                 [targetId |-> B, damage |-> DamageOf(weapon),
                                  targetHealth |-> ById(after.players, B).health]) >>
                     /\ Tally(after.players) = Tally(before.players)
                     /\ after.queue = before.queue
      ]_vars

(* a shotgun shot of which at least two pellets hit without killing *)
C12_Witness ==
    /\ last.branch = "shoot"
    /\ emitted[1].data.weapon = "shotgun"
    /\ Cardinality(Sent(emitted, "hitConfirmed")) >= 2
    /\ Sent(emitted, "playerKilled") = {}

(* C13: when a pellet of A's shot brings a living B's health to zero or below, B's
   health is 0, B is not alive, B's deaths are one more, A's score is 10 more, the
   pellet emits one playerKilled to the whole room and nothing else, and one
   respawn entry for B is appended to the room's queue; a shot kills B at most
   once, however many of its pellets fly at B. *)
C13_LethalHit ==
    [][\A sock \in SockIds, in \in ShootInputs :
          ShotBy(sock, in) =>
            \A data \in {ShootData(sock, in)} :
            \A roomId \in {playerRooms[sock]} :
            \A weapon \in {ShotOf(GetPlayer(rooms[roomId], sock), data).weapon} :
            /\ \A p \in 1..TableOr(WEAPON_PELLETS, weapon, 1) :
               \A before \in {ShotAfter(sock, data, p - 1)} :
               \A after \in {ShotAfter(sock, data, p)} :
               \A B \in {ShotTarget(sock, data, before)} :
                  (/\ B # NullId
                   /\ ById(before.players, B).alive
                   /\ ById(before.players, B).health - DamageOf(weapon) <= 0)
                  => /\ ById(after.players, B).health = 0
                     /\ ~ById(after.players, B).alive
                     /\ ById(after.players, B).deaths
                          = ById(before.players, B).deaths + 1
                     /\ ById(after.players, sock).score
                          = ById(before.players, sock).score + 10
                     /\ after.out = before.out \o
                          << Msg("playerKilled", InChannel(channels, roomId),
                                 [killerId |-> sock,
                                  killerName |-> ById(before.players, sock).name,
                                  targetId |-> B,
                                  targetName |-> ById(before.players, B).name,
                                  killerScore |-> ById(after.players, sock).score]) >>
                     /\ PlayerIds(rooms[roomId]) \cap Connected(sockets)
                          \subseteq InChannel(channels, roomId)
                     /\ after.queue = Append(before.queue,
                                             [playerId |-> B, wait |-> RespawnDelay])
            /\ \A B \in PlayerIds(rooms[roomId]) :
                  /\ ById(rooms'[roomId].players, B).deaths
                        <= ById(rooms[roomId].players, B).deaths + 1
                  /\ Cardinality({i \in Sent(emitted', "playerKilled") :
                                     emitted'[i].data.targetId = B}) <= 1
                  /\ Len(SelectSeq(rooms'[roomId].respawnQueue,
                                   LAMBDA e : e.playerId = B))
                        <= Len(SelectSeq(rooms[roomId].respawnQueue,
                                         LAMBDA e : e.playerId = B)) + 1
      ]_vars

(* a shotgun shot whose second pellet killed: the three pellets after it fly the
   same line at the dead target *)
C13_Witness ==
    /\ last.branch = "shoot"
    /\ Len(emitted) = 4
    /\ emitted[1].data.weapon = "shotgun"
    /\ emitted[3].type = "hitConfirmed"
    /\ emitted[4].type = "playerKilled"
    /\ \E r \in DOMAIN rooms :
          \E i \in DOMAIN rooms[r].players :
             /\ rooms[r].players[i].id = emitted[4].data.targetId
             /\ ~rooms[r].players[i].alive
             /\ rooms[r].players[i].health = 0
             /\ rooms[r].respawnQueue # <<>>

(* C14: once the respawn delay of a killed player of a playing room has elapsed,
   the next run of the interval brings the player back: alive, health 100, and a
   playerRespawned for the player goes to the room. With the interval running
   every 50 ms this is what makes every killed player alive again in the end.
   Violated: a run of the interval ends at the TypeError of the first playing
   room that has a living player (room._isPlayerExitPos is not a function), so
   the rooms behind it in `rooms` do not have their respawns processed, in this
   run or in any later one while that player lives. *)
C14_DueRespawnHappens ==
    [][\A r \in DOMAIN rooms :
          \A i \in DOMAIN rooms[r].respawnQueue :
             (/\ last'.branch \in {"tick", "tickThrown"}
              /\ Tick(0)
              /\ rooms[r].state = "playing"
              /\ rooms[r].respawnQueue[i].wait = 0
              /\ HasPlayer(rooms[r], rooms[r].respawnQueue[i].playerId))
             => LET B == rooms[r].respawnQueue[i].playerId
                    p == GetPlayer(rooms'[r], B)
                IN /\ p.alive
                   /\ p.health = 100
                   /\ \E m \in Sent(emitted', "playerRespawned") :
                         /\ emitted'[m].data.id = B
                         /\ emitted'[m].to = InChannel(channels, r)
      ]_vars

(* C15: when the creator starts a room created with maxPlayers = 2 that holds two
   players, the room is playing with a maze, the start cell is (0, 0), the exit
   cell is (rows - 1, cols - 1), and both players are alive with health 100 at the
   centres of two different cells of the maze whose Manhattan distance is at
   least 5. *)
C15_PairStartsApart ==
    [][\A sock \in SockIds :
          (/\ last'.branch = "startGame"
           /\ last'.sock = sock
           /\ sock \in DOMAIN playerRooms
           /\ playerRooms[sock] \in DOMAIN rooms
           /\ rooms[playerRooms[sock]].maxPlayers = 2
           /\ Len(rooms[playerRooms[sock]].players) = 2)
          => LET room == rooms'[playerRooms[sock]]
                 CellOf(p) == [r |-> p.z \div CELL_SIZE, c |-> p.x \div CELL_SIZE]
                 Centred(p) == /\ p.x % CELL_SIZE = CELL_SIZE \div 2
                               /\ p.z % CELL_SIZE = CELL_SIZE \div 2
                               /\ CellOf(p).r \in 0..(room.maze.rows - 1)
                               /\ CellOf(p).c \in 0..(room.maze.cols - 1)
                 Apart(a, b) ==
                    (IF a.r > b.r THEN a.r - b.r ELSE b.r - a.r)
                    + (IF a.c > b.c THEN a.c - b.c ELSE b.c - a.c)
             IN /\ room.state = "playing"
                /\ room.maze # NoMaze
                /\ room.maze.rows > 0 /\ room.maze.cols > 0
                /\ room.startCell = [r |-> 0, c |-> 0]
                /\ room.exitCell = [r |-> room.maze.rows - 1, c |-> room.maze.cols - 1]
                /\ Len(room.players) = 2
                /\ \A i \in 1..2 : /\ room.players[i].health = 100
                                   /\ room.players[i].alive
                                   /\ Centred(room.players[i])
                /\ CellOf(room.players[1]) # CellOf(room.players[2])
                /\ Apart(CellOf(room.players[1]), CellOf(room.players[2])) >= 5
      ]_vars

(* a room for two, started with its two players, as a maze with walls *)
C15_Witness ==
    /\ last.branch = "startGame"
    /\ \E r \in DOMAIN rooms :
          /\ rooms[r].maxPlayers = 2
          /\ rooms[r].state = "playing"
          /\ Len(rooms[r].players) = 2
          /\ ~rooms[r].flatArena
          /\ rooms[r].players[1].x # rooms[r].players[2].x

(* the roster of a room as the bossKill handler leaves it *)
IsReset(p) == p.score = 0 /\ p.deaths = 0 /\ p.health = 100 /\ p.alive

(* C16: a bossKill from a member of a playing room leaves the room waiting with
   the same roster, every player of it with score 0, deaths 0, health 100 and
   alive; a startGame of the creator of a waiting room puts it in state playing,
   also after a bossKill; and a room's state is never anything but waiting or
   playing. *)
C16_BossKillResetsRoom ==
    /\ [](\A r \in DOMAIN rooms : rooms[r].state \in {"waiting", "playing"})
    /\ [][\A sock \in SockIds :
             /\ (/\ last'.branch = "bossKill"
                 /\ last'.sock = sock)
                => LET roomId == playerRooms[sock]
                   IN /\ rooms[roomId].state = "playing"
                      /\ roomId \in DOMAIN rooms'
                      /\ rooms'[roomId].state = "waiting"
                      /\ Len(rooms'[roomId].players) = Len(rooms[roomId].players)
                      /\ \A i \in DOMAIN rooms'[roomId].players :
                            /\ rooms'[roomId].players[i].id = rooms[roomId].players[i].id
                            /\ IsReset(rooms'[roomId].players[i])
             /\ (/\ last'.branch = "startGame"
                 /\ last'.sock = sock)
                => /\ rooms[playerRooms[sock]].state = "waiting"
                   /\ rooms[playerRooms[sock]].creatorId = sock
                   /\ rooms'[playerRooms[sock]].state = "playing"
         ]_vars

(* a room that is playing again after a bossKill: it holds the respawn entry of
   a kill of the round before, and the killed player's deaths are back at 0 *)
C16_Witness ==
    \E r \in DOMAIN rooms :
       /\ rooms[r].state = "playing"
       /\ last.branch = "startGame"
       /\ \E i \in DOMAIN rooms[r].respawnQueue :
             /\ HasPlayer(rooms[r], rooms[r].respawnQueue[i].playerId)
             /\ GetPlayer(rooms[r], rooms[r].respawnQueue[i].playerId).deaths = 0

(* the gameWon messages of a list of messages *)
GameWon(out) == {i \in Sent(out, "gameWon") : TRUE}

(* C17: the gameWon payload of a bossKill carries as winnerScore the highest score
   of the roster after the boss killer's 50 points, as winnerId the id of the
   earliest roster entry with that score, and a scoreboard with exactly one entry
   for each roster member, holding the member's score (the killer's with the 50
   points) and deaths as they were before the reset. *)
C17_GameWonPayload ==
    [][\A sock \in SockIds :
          (/\ last'.branch = "bossKill"
           /\ last'.sock = sock)
          => LET room == rooms[playerRooms[sock]]
                 n == Len(room.players)
                 credited == [i \in 1..n |->
                                room.players[i].score
                                + (IF room.players[i].id = sock THEN 50 ELSE 0)]
                 high == CHOOSE v \in {credited[i] : i \in 1..n} :
                            \A i \in 1..n : credited[i] <= v
                 first == CHOOSE i \in 1..n :
                             /\ credited[i] = high
                             /\ \A j \in 1..(i - 1) : credited[j] < high
             IN /\ Cardinality(GameWon(emitted')) = 1
                /\ \A m \in GameWon(emitted') :
                      LET d == emitted'[m].data
                      IN /\ emitted'[m].to = InChannel(channels, playerRooms[sock])
                         /\ d.bossKillerId = sock
                         /\ d.winnerScore = high
                         /\ d.winnerId = room.players[first].id
                         /\ d.winnerName = room.players[first].name
                         /\ DOMAIN d.scoreboard = {room.players[i].id : i \in 1..n}
                         /\ Cardinality(DOMAIN d.scoreboard) = n
                         /\ \A i \in 1..n :
                               d.scoreboard[room.players[i].id] =
                                  [name |-> room.players[i].name,
                                   score |-> credited[i],
                                   deaths |-> room.players[i].deaths]
      ]_vars

(* a boss kill that two other players win level: the payload names one of them,
   and the scoreboard shows both with the winning score *)
C17_Witness ==
    /\ last.branch = "bossKill"
    /\ \E m \in GameWon(emitted) :
          LET d == emitted[m].data
          IN /\ d.winnerId # d.bossKillerId
             /\ Cardinality({id \in DOMAIN d.scoreboard :
                                d.scoreboard[id].score = d.winnerScore}) = 2

(* a boss kill after a kill: the scoreboard shows the deaths of the round *)
BossKillAfterKill ==
    /\ last.branch = "bossKill"
    /\ \E m \in GameWon(emitted) :
          \E id \in DOMAIN emitted[m].data.scoreboard :
             emitted[m].data.scoreboard[id].deaths > 0

(* the cells of a rows x cols grid *)
GridCells(rows, cols) == (0..(rows - 1)) \X (0..(cols - 1))

(* the cells next to the cells of `from` through an open wall of grid, on the side
   of the cell that is left *)
Across(grid, rows, cols, from) ==
    {cell \in GridCells(rows, cols) :
        \E f \in from : \E i \in DOMAIN DIRS :
           /\ cell = <<f[1] + DIRS[i].dr, f[2] + DIRS[i].dc>>
           /\ grid[f[1]][f[2]][DIRS[i].name]}

(* the cells that can be reached from the cells of `from` through open walls *)
RECURSIVE Reachable(_, _, _, _)
Reachable(grid, rows, cols, from) ==
    LET more == from \cup Across(grid, rows, cols, from)
    IN IF more = from THEN from ELSE Reachable(grid, rows, cols, more)

(* the pairs of adjacent cells with an open wall between them, each pair named by
   its upper or left cell and the direction south or east *)
OpenPairs(grid, rows, cols) ==
    {<<cell, name>> \in GridCells(rows, cols) \X {"south", "east"} :
        \/ /\ name = "south"
           /\ cell[1] + 1 < rows
           /\ (grid[cell[1]][cell[2]].south \/ grid[cell[1] + 1][cell[2]].north)
        \/ /\ name = "east"
           /\ cell[2] + 1 < cols
           /\ (grid[cell[1]][cell[2]].east \/ grid[cell[1]][cell[2] + 1].west)}

(* C18: generateMaze terminates for every choice of neighbours, after at most
   2 * rows * cols - 1 iterations of its loop, each of which is a push of a new
   cell or a pop; in the grid it returns every cell can be reached from (0, 0)
   through open walls, exactly rows * cols - 1 pairs of adjacent cells have an
   open wall between them, a wall is open on one side of a shared edge exactly
   when it is open on the other, and no wall on the outer boundary is open. *)
C18_MazeIsSpanningTree ==
    call.fn = "generateMaze"
    => LET rows == call.rows
           cols == call.cols
           grid == call.st.grid
       IN /\ call.steps = 2 * Cardinality(call.st.visited) - 1 - Len(call.st.stack)
          /\ Cardinality(call.st.visited) <= rows * cols
          /\ call.steps <= 2 * rows * cols - 1
          /\ Len(call.st.stack) > 0 => ENABLED MazeLoopStep
          /\ Len(call.st.stack) = 0
             => /\ Reachable(grid, rows, cols, {<<0, 0>>}) = GridCells(rows, cols)
                /\ Cardinality(OpenPairs(grid, rows, cols)) = rows * cols - 1
                /\ \A cell \in GridCells(rows, cols) :
                      /\ cell[1] + 1 < rows
                         => grid[cell[1]][cell[2]].south = grid[cell[1] + 1][cell[2]].north
                      /\ cell[2] + 1 < cols
                         => grid[cell[1]][cell[2]].east = grid[cell[1]][cell[2] + 1].west
                      /\ cell[1] = 0 => ~grid[cell[1]][cell[2]].north
                      /\ cell[1] = rows - 1 => ~grid[cell[1]][cell[2]].south
                      /\ cell[2] = 0 => ~grid[cell[1]][cell[2]].west
                      /\ cell[2] = cols - 1 => ~grid[cell[1]][cell[2]].east

(* a finished maze of more than one row and column in which some cell has three
   open walls: the walk came back to it and went on another way *)
C18_Witness ==
    /\ call.fn = "generateMaze"
    /\ Len(call.st.stack) = 0
    /\ call.rows > 1 /\ call.cols > 1
    /\ \E cell \in GridCells(call.rows, call.cols) :
          Cardinality({i \in DOMAIN DIRS :
                          call.st.grid[cell[1]][cell[2]][DIRS[i].name]}) >= 3

(* C19: when the grid has at least 25 cells for each of the count cells asked for,
   _pickSpacedSpawns returns count cells of which any two are at Manhattan
   distance 5 or more, whatever order the shuffle has left the cells in. *)
C19_SpawnsAreSpaced ==
    (/\ call.fn = "_pickSpacedSpawns"
     /\ call.done
     /\ call.rows * call.cols >= call.count * SPAWN_SPACING * SPAWN_SPACING)
    => /\ Len(call.chosen) = call.count
       /\ \A i, j \in DOMAIN call.chosen :
             i # j => Manhattan(call.chosen[i], call.chosen[j]) >= SPAWN_SPACING

(* the position of the call lies outside [0, cols * CELL_SIZE) x [0, rows * CELL_SIZE) *)
OutsideGrid ==
    ~(/\ 0 <= call.x /\ call.x < call.maze.cols * CELL_SIZE
      /\ 0 <= call.z /\ call.z < call.maze.rows * CELL_SIZE)

(* C20: for a maze of a playing room, isBlocked returns true for every position
   outside the grid's rectangle [0, cols * cellSize) x [0, rows * cellSize),
   whatever the radius, 0 included. *)
C20_OutsideIsBlocked ==
    (/\ call.fn = "isBlocked"
     /\ call.done
     /\ OutsideGrid)
    => call.blocked

(* a call with radius 0 at the far edge of a flat arena, where no wall is closed:
   x = cols * cellSize is the first coordinate outside *)
C20_Witness ==
    /\ call.fn = "isBlocked"
    /\ call.done
    /\ call.radius = 0
    /\ call.x = call.maze.cols * CELL_SIZE
    /\ call.z = 60
    /\ call.maze.grid[0][0].north
    /\ call.blocked

(* Levels: rounds of one room in which players signal the exit, between game
   starts, boss kills, ticks and disconnects *)
NextLevels ==
    \/ \E q \in NoToken : Len(sockets) < LevelSockets /\ Connect(q)
    \/ \E sock \in SockIds, name \in RoomNameInputs, mp \in WideMaxPlayers,
          arena \in ArenaInputs :
          /\ nextRoomId <= LevelRooms
          /\ sock \notin DOMAIN playerRooms
          /\ CreateRoom(sock, name, mp, arena)
    \/ \E sock \in SockIds, roomId \in 1..LevelRooms :
          sock \notin DOMAIN playerRooms /\ JoinRoom(sock, roomId)
    \/ \E sock \in SockIds, seed \in Seeds : StartGameHandler(sock, seed)
    \/ \E sock \in SockIds, seed \in Seeds : PlayerReachedExit(sock, seed)
    \/ \E sock \in SockIds : BossKill(sock)
    \/ Tick(0)
    \/ \E sock \in SockIds : Disconnect(sock)

SpecLevels == Init /\ [][NextLevels]_vars

(* The way to the exit: one client alone in a room made for one player (a 6 x 6
   grid), walking, signalling the exit, and the interval *)
SoloMaxPlayers == {1}

NextExit ==
    \/ \E q \in NoToken : Len(sockets) < ExitSockets /\ Connect(q)
    \/ \E sock \in SockIds, name \in RoomNameInputs, mp \in SoloMaxPlayers,
          arena \in ArenaInputs :
          nextRoomId <= ExitRooms /\ CreateRoom(sock, name, mp, arena)
    \/ \E sock \in SockIds, seed \in Seeds : StartGameHandler(sock, seed)
    \/ \E sock \in SockIds, in \in MoveInputs : nMoves < ExitMoves /\ MoveOf(sock, in)
    \/ \E sock \in SockIds, seed \in Seeds : PlayerReachedExit(sock, seed)
    \/ Tick(0)

SpecExit == Init /\ [][NextExit]_vars

(* processRespawns on its own: a playing room of two players started for three,
   and a respawn queue of up to MaxQueue entries. Entries are pushed in the order of
   the kills with one delay, so the time left does not go down along the queue; an
   entry can name a player who has left (id 3) or who is alive again after a
   bossKill; a dead player has an entry *)
MaxQueue == 3
QueueWaits == {0, 1}
QueueIds == {1, 2, 3}

QueueRooms ==
    {StartGame(AddPlayer(AddPlayer(NewRoom(1, RoomDefaultName, 3, 1), 1, <<>>, "rifle",
                                   Undefined),
                         2, <<>>, "rifle", Undefined), seed) : seed \in Seeds}

InitQueue ==
    /\ Boot
    /\ \E room \in QueueRooms, n \in 0..MaxQueue, dead \in SUBSET {1, 2} :
          \E ids \in [1..n -> QueueIds], waits \in [1..n -> QueueWaits] :
             /\ \A i \in 1..(n - 1) : waits[i] <= waits[i + 1]
             /\ \A id \in dead : \E i \in 1..n : ids[i] = id
             /\ call = [fn |-> "processRespawns",
                        room |-> [room EXCEPT
                           !.players = [i \in DOMAIN @ |->
                              IF @[i].id \in dead
                              THEN [@[i] EXCEPT !.health = 0, !.alive = FALSE,
                                                !.deaths = 1]
                              ELSE @[i]],
                           !.respawnQueue = [i \in 1..n |->
                              [playerId |-> ids[i], wait |-> waits[i]]]],
                        done |-> FALSE,
                        after |-> [players |-> <<>>, queue |-> <<>>,
                                   respawned |-> <<>>]]

CallProcessRespawns ==
    /\ call.fn = "processRespawns"
    /\ ~call.done
    /\ \E seed \in Seeds :
          call' = [call EXCEPT !.done = TRUE,
                               !.after = ProcessRespawns(call.room, seed)]
    /\ ServerIdle

SpecQueue == InitQueue /\ [][CallProcessRespawns]_vars

(* Guards: the in-game messages sent by clients in every situation: in no room,
   in a waiting room, playing and alive, playing and dead *)
StepInputs == {in \in MoveInputs : in.dx = 60}

NextGuards ==
    \/ \E q \in NoToken : Len(sockets) < GuardSockets /\ Connect(q)
    \/ \E sock \in SockIds, name \in RoomNameInputs, mp \in WideMaxPlayers :
          /\ nextRoomId <= GuardRooms
          /\ sock \notin DOMAIN playerRooms
          /\ CreateRoom(sock, name, mp, FALSE)
    \/ \E sock \in SockIds, roomId \in 1..GuardRooms :
          sock \notin DOMAIN playerRooms /\ JoinRoom(sock, roomId)
    \/ \E sock \in SockIds : StartGameHandler(sock, 0)
    \/ \E sock \in SockIds, in \in StepInputs : nMoves < GuardMoves /\ MoveOf(sock, in)
    \/ \E sock \in SockIds, in \in ShotgunInputs :
          /\ TopScore < MaxScore
          /\ Pending(DOMAIN rooms) < MaxPending
          /\ Shoot(sock, ShootData(sock, in))
    \/ \E sock \in SockIds : TopScore < GuardScore /\ NpcKill(sock)
    \/ \E sock \in SockIds : BossKill(sock)
    \/ \E sock \in SockIds : PlayerReachedExit(sock, 0)

SpecGuards == Init /\ [][NextGuards]_vars

(* One token: up to TokenSockets connections that all present the same token,
   around TokenRooms rooms, in the lobby *)
OneToken == {"t1"}

NextTokens ==
    \/ \E q \in OneToken : Len(sockets) < TokenSockets /\ Connect(q)
    \/ \E sock \in SockIds, name \in RoomNameInputs, mp \in WideMaxPlayers :
          nextRoomId <= TokenRooms /\ CreateRoom(sock, name, mp, FALSE)
    \/ \E sock \in SockIds, roomId \in 1..TokenRooms : JoinRoom(sock, roomId)
    \/ \E sock \in SockIds : LeaveRoom(sock)
    \/ \E sock \in SockIds : Disconnect(sock)
    \/ \E sock \in SockIds : GraceTimer(sock)

SpecTokens == Init /\ [][NextTokens]_vars

(* Full rooms: up to FullSockets connections around rooms made for one, two or
   seventeen players (the last is cut down to MaxPlayersCap), in the lobby *)
CapInputs == {1, 2, 17}

NextFull ==
    \/ \E q \in QueryPids : Len(sockets) < FullSockets /\ Connect(q)
    \/ \E sock \in SockIds, name \in RoomNameInputs, mp \in CapInputs :
          /\ nextRoomId <= FullRooms
          /\ sock \notin DOMAIN playerRooms
          /\ CreateRoom(sock, name, mp, FALSE)
    \/ \E sock \in SockIds, roomId \in 1..FullRooms : JoinRoom(sock, roomId)
    \/ \E sock \in SockIds : LeaveRoom(sock)
    \/ \E sock \in SockIds : Disconnect(sock)
    \/ \E sock \in SockIds : GraceTimer(sock)

SpecFull == Init /\ [][NextFull]_vars

(* C21: raycastPlayers returns null when a closed wall lies between the origin of
   the ray and every living player other than the shooter: here the shooter is in
   one cell, the only other player in the next cell along the ray, and the wall
   between the two cells is closed. *)
C21_WallStopsRay ==
    (/\ call.fn = "raycastPlayers"
     /\ call.done
     /\ ~call.maze.grid[call.cell.r][call.cell.c][call.side])
    => call.targetId = NullId

(* the distances, in steps of the ray, at which the ray of the call samples a
   point within the hit radius of roster entry i *)
SampledAt(i) ==
    {j \in 0..((WEAPON_RANGE.rifle + RayStep - 1) \div RayStep - 1) :
        LET px == call.origin.x + call.direction.x * j * RayStep
        IN (px - call.players[i].x) * (px - call.players[i].x) < HitRadius * HitRadius}

(* the living players other than the shooter that the ray of the call samples *)
InTheLine ==
    {i \in DOMAIN call.players :
        /\ call.players[i].alive
        /\ call.players[i].id # call.shooterId
        /\ SampledAt(i) # {}}

(* C29: a pellet of a shot leaves the shooter's health, alive flag and deaths as
   they are, and leaves every dead player's record and respawn status as they
   are; the player it hits, if any, is alive, is not the shooter, and is among
   the living players the ray samples the one sampled at the smallest distance,
   and it hits one whenever the ray samples a living player other than the
   shooter. *)
C29_PelletHitsNearestLiving ==
    (call.fn = "pellet" /\ call.done)
    => LET before == call.players
           after == call.after.players
           hit == {i \in DOMAIN before : after[i].health # before[i].health}
       IN /\ DOMAIN after = DOMAIN before
          /\ \A i \in DOMAIN before :
                /\ before[i].id = call.shooterId
                   => /\ after[i].health = before[i].health
                      /\ after[i].alive = before[i].alive
                      /\ after[i].deaths = before[i].deaths
                /\ ~before[i].alive
                   => /\ after[i] = before[i]
                      /\ \A q \in DOMAIN call.after.queue :
                            call.after.queue[q].playerId # before[i].id
                /\ i \notin hit /\ before[i].id # call.shooterId
                   => after[i] = before[i]
          /\ hit \subseteq InTheLine
          /\ Cardinality(hit) <= 1
          /\ InTheLine # {} => hit # {}
          /\ \A t \in hit : \A i \in InTheLine :
                \E a \in SampledAt(t) : \A b \in SampledAt(i) : a <= b

(* a pellet fired from the shooter's own place that passes a dead player and then
   hits a living one *)
C29_Witness ==
    /\ call.fn = "pellet"
    /\ call.done
    /\ call.origin.x = GetPlayer([players |-> call.players], call.shooterId).x
    /\ \E t \in DOMAIN call.players :
          /\ call.after.players[t].health < call.players[t].health
          /\ \E d \in DOMAIN call.players :
                /\ ~call.players[d].alive
                /\ \E a \in SampledAt(d) : \A b \in SampledAt(t) : a < b

(* the places of the returned list whose cell is SPAWN_SPACING or more away from
   every cell before it *)
SpacedPlaces ==
    {i \in DOMAIN call.chosen :
        \A j \in 1..(i - 1) :
           Manhattan(call.chosen[j], call.chosen[i]) >= SPAWN_SPACING}

(* C30: for a count of 1 or more and a grid of at least count cells,
   _pickSpacedSpawns returns exactly count cells, all different and inside the
   grid; the cells that are not spaced from those before them come after all the
   spaced ones, and there are such cells only when no cell of the grid is spaced
   from all the spaced ones, which is when the greedy pass could not fill the
   slots. *)
C30_FallbackFillsTheRest ==
    (/\ call.fn = "_pickSpacedSpawns"
     /\ call.done
     /\ call.count >= 1
     /\ call.rows * call.cols >= call.count)
    => /\ Len(call.chosen) = call.count
       /\ \A i \in DOMAIN call.chosen :
             /\ call.chosen[i].r \in 0..(call.rows - 1)
             /\ call.chosen[i].c \in 0..(call.cols - 1)
             /\ \A j \in 1..(i - 1) : call.chosen[j] # call.chosen[i]
       /\ SpacedPlaces = 1..Cardinality(SpacedPlaces)
       /\ Cardinality(SpacedPlaces) < call.count
          => \A r \in 0..(call.rows - 1), c \in 0..(call.cols - 1) :
                \E i \in SpacedPlaces :
                   Manhattan(call.chosen[i], [r |-> r, c |-> c]) < SPAWN_SPACING

(* a call that had to fall back for a slot although the grid had cells to spare *)
C30_Witness ==
    /\ call.fn = "_pickSpacedSpawns"
    /\ call.done
    /\ Len(call.chosen) = call.count
    /\ call.count < call.rows * call.cols
    /\ Cardinality(SpacedPlaces) < call.count

(* C22: a playerReachedExit that passes its guards, which is the call of
   advancePlayerLevel for the sender, raises the sender's level by exactly 1, puts
   the sender at the centre of cell (0,0), sends one playerLevelAdvanced to the
   sender alone with the new level, and leaves every other roster entry, every other
   player's cached enemy lists and the room's state as they were; and in every
   state advancePlayerLevel for an id that is not in the roster returns the room
   unchanged and hands nothing to emitFn. *)
C22_AdvanceTouchesOnePlayer ==
    [][/\ last'.branch = "reachedExit"
          => LET sock == last'.sock
                 roomId == playerRooms[sock]
                 room == rooms[roomId]
                 after == rooms'[roomId]
                 i == IndexOf(room, sock)
             IN /\ after.players[i].level = room.players[i].level + 1
                /\ after.players[i].x = CellToWorld(0, 0).x
                /\ after.players[i].z = CellToWorld(0, 0).z
                /\ after.players[i].id = sock
                /\ Len(emitted') = 1
                /\ emitted'[1].type = "playerLevelAdvanced"
                /\ emitted'[1].to = {sock}
                /\ emitted'[1].data.level = after.players[i].level
                /\ DOMAIN after.players = DOMAIN room.players
                /\ \A j \in DOMAIN room.players :
                      j # i => after.players[j] = room.players[j]
                /\ DOMAIN after.playerEnemies = DOMAIN room.playerEnemies
                /\ \A id \in DOMAIN room.playerEnemies :
                      id # sock => after.playerEnemies[id] = room.playerEnemies[id]
                /\ after.state = room.state
                /\ DOMAIN rooms' = DOMAIN rooms
       /\ \A roomId \in DOMAIN rooms' : \A id \in SockIds, seed \in Seeds :
             ~HasPlayer(rooms'[roomId], id)
             => AdvancePlayerLevel(rooms'[roomId], id, seed)
                   = [room |-> rooms'[roomId], payloads |-> <<>>]]_vars

(* a player advanced to level 1 in a playing room next to a player still at level 0 *)
C22_Witness ==
    /\ last.branch = "reachedExit"
    /\ \E roomId \in DOMAIN rooms :
          /\ Len(rooms[roomId].players) = 2
          /\ GetPlayer(rooms[roomId], last.sock).level = 1
          /\ \E i \in DOMAIN rooms[roomId].players :
                /\ rooms[roomId].players[i].id # last.sock
                /\ rooms[roomId].players[i].level = 0
                /\ rooms[roomId].players[i].x # CellToWorld(0, 0).x

(* C23: an enemy list cached for a (player, level) pair stays what it is: in every
   step, for every player who is in the room's roster before and after it, each
   level that had a cached list still has that same list. *)
C23_CachedEnemiesKept ==
    [][\A roomId \in DOMAIN rooms \cap DOMAIN rooms' :
          \A id \in PlayerIds(rooms[roomId]) \cap PlayerIds(rooms'[roomId]) :
             id \in DOMAIN rooms[roomId].playerEnemies
             => /\ id \in DOMAIN rooms'[roomId].playerEnemies
                /\ \A level \in DOMAIN rooms[roomId].playerEnemies[id] :
                      /\ level \in DOMAIN rooms'[roomId].playerEnemies[id]
                      /\ rooms'[roomId].playerEnemies[id][level]
                            = rooms[roomId].playerEnemies[id][level]]_vars

(* C24: in every reachable state every player of every room has a health from 0 to
   100. *)
C24_HealthInRange ==
    \A roomId \in DOMAIN rooms : \A i \in DOMAIN rooms[roomId].players :
       rooms[roomId].players[i].health \in 0..100

(* a shot has just killed a player whose health was not a multiple of the damage
   of the weapon: the rest that the last pellet overshoots is cut off at 0 *)
C24_Witness ==
    /\ last.branch = "shoot"
    /\ \E k \in DOMAIN emitted :
          /\ emitted[k].type = "playerKilled"
          /\ \E roomId \in DOMAIN rooms :
                LET t == GetPlayer(rooms[roomId], emitted[k].data.targetId)
                IN /\ HasPlayer(rooms[roomId], emitted[k].data.targetId)
                   /\ t.health = 0
                   /\ ~t.alive
                   /\ \E j \in DOMAIN emitted :
                         /\ j < k
                         /\ emitted[j].type = "hitConfirmed"
                         /\ emitted[j].data.targetHealth < emitted[j].data.damage

(* C25: a run of the interval gives every playing room a gameState message that
   goes to the room's members and holds the room's roster as the run leaves it, and
   a waiting room is left as it was and gets no gameState.
   Violated: the run ends at the TypeError of the exit check in the first playing
   room that has a living player whose _exitTriggered is not set, before that
   room's gameState is sent. *)
C25_TickServesEveryPlayingRoom ==
    [][last'.branch \in {"tick", "tickThrown"}
       => \A roomId \in DOMAIN rooms :
             /\ roomId \in DOMAIN rooms'
             /\ IF rooms[roomId].state = "playing"
                THEN \E k \in Sent(emitted', "gameState") :
                        /\ emitted'[k].to = InChannel(channels, roomId)
                        /\ emitted'[k].data = GetGameState(rooms'[roomId])
                ELSE /\ rooms'[roomId] = rooms[roomId]
                     /\ \A k \in Sent(emitted', "gameState") :
                           emitted'[k].to # InChannel(channels, roomId)]_vars

(* C26: a run of the interval deals with every playing room as if the room were
   the only one: the room's roster and respawn queue after the run are what
   processRespawns makes of them, whatever happens in the rooms before it.
   Violated: the TypeError thrown while an earlier room is dealt with ends the
   run, and the rooms behind it keep their due respawn entries. *)
C26_RoomsTickedIndependently ==
    [][last'.branch \in {"tick", "tickThrown"}
       => \A roomId \in DOMAIN rooms :
             rooms[roomId].state = "playing"
             => \E f \in {ProcessRespawns(rooms[roomId], 0)} :
                   /\ rooms'[roomId].players = f.players
                   /\ rooms'[roomId].respawnQueue = f.queue]_vars

(* C27: a step of the move handler that takes a living player's authoritative
   position from outside the exit cell into it raises that player's level by
   exactly 1.
   Violated: the move handler's exit check calls room._isPlayerExitPos, which class
   Room does not define; the TypeError is caught by the handler and the level stays
   as it was. *)
C27_CrossingAdvancesOnce ==
    [][last'.branch = "moved"
       => LET sock == last'.sock
              roomId == playerRooms[sock]
              before == GetPlayer(rooms[roomId], sock)
              after == GetPlayer(rooms'[roomId], sock)
          IN (/\ before.alive
              /\ ~IsExitPos(rooms[roomId], before.x, before.z)
              /\ IsExitPos(rooms'[roomId], after.x, after.z))
             => after.level = before.level + 1]_vars

(* the places of the queue of the call whose time has come *)
DuePlaces == {i \in DOMAIN call.room.respawnQueue : call.room.respawnQueue[i].wait = 0}

(* C28: one pass of processRespawns takes out of the queue exactly the entries
   whose time has come and keeps the others, in their order; it returns one record
   for each entry taken out whose player is in the roster, and none for the others;
   a player named by such an entry has health 100 and is alive afterwards, and
   every other roster entry is as it was. *)
C28_RespawnPass ==
    (call.fn = "processRespawns" /\ call.done)
    => LET room == call.room
           queue == room.respawnQueue
           after == call.after
           back == {i \in DuePlaces : HasPlayer(room, queue[i].playerId)}
       IN /\ after.queue = SelectSeq(queue, LAMBDA e : e.wait > 0)
          /\ Len(after.respawned) = Cardinality(back)
          /\ \A id \in QueueIds :
                Cardinality({k \in DOMAIN after.respawned :
                                after.respawned[k].playerId = id})
                   = Cardinality({i \in back : queue[i].playerId = id})
          /\ DOMAIN after.players = DOMAIN room.players
          /\ \A j \in DOMAIN room.players :
                IF \E i \in back : queue[i].playerId = room.players[j].id
                THEN /\ after.players[j].health = 100
                     /\ after.players[j].alive
                     /\ after.players[j].id = room.players[j].id
                     /\ after.players[j].deaths = room.players[j].deaths
                ELSE after.players[j] = room.players[j]

(* a pass over a queue that holds a due entry of a dead player of the roster, a
   due entry of a player who has left, and an entry whose time has not come *)
C28_Witness ==
    /\ call.fn = "processRespawns"
    /\ call.done
    /\ \E i \in DuePlaces :
          /\ HasPlayer(call.room, call.room.respawnQueue[i].playerId)
          /\ ~GetPlayer(call.room, call.room.respawnQueue[i].playerId).alive
    /\ \E i \in DuePlaces : ~HasPlayer(call.room, call.room.respawnQueue[i].playerId)
    /\ \E i \in DOMAIN call.room.respawnQueue :
          /\ call.room.respawnQueue[i].wait > 0
          /\ HasPlayer(call.room, call.room.respawnQueue[i].playerId)
          /\ ~GetPlayer(call.room, call.room.respawnQueue[i].playerId).alive
    /\ Len(call.after.queue) = 1
    /\ Len(call.after.respawned) = 1

(* the sender is in no room, or in a room that is not playing *)
NotPlaying(sock) ==
    \/ sock \notin DOMAIN playerRooms
    \/ playerRooms[sock] \notin DOMAIN rooms
    \/ rooms[playerRooms[sock]].state # "playing"

(* the sender's player is dead *)
IsDead(sock) == InRoster(sock) /\ ~GetPlayer(rooms[playerRooms[sock]], sock).alive

(* the step changes nothing of the server's state and sends nothing *)
NothingDone ==
    /\ UNCHANGED <<sockets, rooms, nextRoomId, playerRooms, playerNames,
                   disconnectTimers, timers, channels>>
    /\ emitted' = <<>>

(* C31: move, shoot, npcKill, bossKill and playerReachedExit from a sender who is in
   no room or whose room is not playing change nothing and send nothing, and so do
   move and shoot from a sender whose player is dead. *)
C31_GuardedHandlersDoNothing ==
    [][\A sock \in SockIds :
          /\ (/\ NotPlaying(sock)
              /\ \/ \E in \in StepInputs : MoveOf(sock, in)
                 \/ \E in \in ShotgunInputs : Shoot(sock, ShootData(sock, in))
                 \/ NpcKill(sock)
                 \/ BossKill(sock)
                 \/ PlayerReachedExit(sock, 0))
             => NothingDone
          /\ (/\ IsDead(sock)
              /\ \/ \E in \in StepInputs : MoveOf(sock, in)
                 \/ \E in \in ShotgunInputs : Shoot(sock, ShootData(sock, in)))
             => NothingDone]_vars

(* a message has just been ignored in a playing room where one player is dead and
   nobody has signalled the exit: it was a move or a shot of the dead player *)
C31_Witness ==
    /\ last.branch = "ignored"
    /\ emitted = <<>>
    /\ \A sock \in Connected(sockets) : InRoster(sock)
    /\ \E roomId \in DOMAIN rooms :
          /\ rooms[roomId].state = "playing"
          /\ \E i \in DOMAIN rooms[roomId].players : ~rooms[roomId].players[i].alive
          /\ \A i \in DOMAIN rooms[roomId].players :
                ~rooms[roomId].players[i].exitTriggered

(* every registered room's creator is in the room's roster *)
CreatorInRoster ==
    \A roomId \in DOMAIN rooms : HasPlayer(rooms[roomId], rooms[roomId].creatorId)

(* C32: every room of the registry has a creator who is in its roster, and when the
   creator's connection has dropped and a new connection presents the creator's
   token, the new connection is the creator from then on, so that its startGame
   passes the creator test.
   Violated: the reattach pass moves nobody (no roster entry carries a
   persistentId), creatorId keeps the id of the dropped connection, and startGame
   from the new connection is refused. *)
C32_CreatorIsAMember ==
    [][/\ CreatorInRoster'
       /\ \A c1 \in DOMAIN sockets :
             (/\ sockets[c1].persistentId # Null
              /\ ~sockets[c1].connected
              /\ InRoster(c1)
              /\ rooms[playerRooms[c1]].creatorId = c1
              /\ ConnectedWith(sockets[c1].persistentId))
             => /\ playerRooms[c1] \in DOMAIN rooms'
                /\ ~NotCreator(rooms'[playerRooms[c1]], Len(sockets'))]_vars

(* C33: the index and the registry agree: a connection the index maps to a room id
   is in the roster of that room of the registry, and every member of a registered
   room is mapped to that room.
   Violated: a client alone in its room that joins that same room is first taken
   out by _leaveCurrentRoom, which deletes the emptied room from the registry, and
   then added to the room object the handler looked up before; the index maps the
   client to an id the registry no longer has. *)
C33_IndexMatchesRegistry ==
    /\ \A c \in DOMAIN playerRooms :
          /\ playerRooms[c] \in DOMAIN rooms
          /\ HasPlayer(rooms[playerRooms[c]], c)
    /\ \A roomId \in DOMAIN rooms : \A id \in PlayerIds(rooms[roomId]) :
          /\ id \in DOMAIN playerRooms
          /\ playerRooms[id] = roomId

(* C34: in every reachable state a connection id is a key of the roster of at most
   one room. *)
C34_OneRoomPerConnection ==
    \A r1 \in DOMAIN rooms, r2 \in DOMAIN rooms :
       r1 # r2 => PlayerIds(rooms[r1]) \cap PlayerIds(rooms[r2]) = {}

(* a third connection has just presented the token of two connections whose
   players sit in two different rooms *)
C34_Witness ==
    /\ last.branch \in {"connect", "reconnect"}
    /\ last.sock = 3
    /\ sockets[3].persistentId # Null
    /\ \E c1 \in {1, 2}, c2 \in {1, 2} :
          /\ c1 # c2
          /\ sockets[c1].persistentId = sockets[3].persistentId
          /\ sockets[c2].persistentId = sockets[3].persistentId
          /\ InRoster(c1) /\ InRoster(c2)
          /\ playerRooms[c1] # playerRooms[c2]

(* C35: in every reachable state the roster of every room holds at most maxPlayers
   players, and maxPlayers is at most 16. *)
C35_RosterWithinMaxPlayers ==
    \A roomId \in DOMAIN rooms :
       /\ Len(rooms[roomId].players) <= rooms[roomId].maxPlayers
       /\ rooms[roomId].maxPlayers <= 16

(* a join has just been refused by a room for two that holds two players *)
C35_Witness ==
    /\ last.branch = "joinRefused"
    /\ \E k \in DOMAIN emitted : emitted[k].data = [message |-> "Room is full"]
    /\ \E roomId \in DOMAIN rooms :
          /\ rooms[roomId].maxPlayers = 2
          /\ Len(rooms[roomId].players) = 2

(* C36: the level of a player rises only in a step before which the player is
   alive and its authoritative position is inside the exit cell of its room or
   within the threshold of the exit's centre.
   Violated: the playerReachedExit handler looks neither at the position nor at
   alive; a client standing on its start cell, or a dead one, raises its level
   with one message. *)
C36_LevelRisesOnlyAtExit ==
    [][\A sock \in SockIds :
          (/\ InRoster(sock)
           /\ playerRooms[sock] \in DOMAIN rooms'
           /\ HasPlayer(rooms'[playerRooms[sock]], sock)
           /\ GetPlayer(rooms'[playerRooms[sock]], sock).level
                 > GetPlayer(rooms[playerRooms[sock]], sock).level)
          => LET room == rooms[playerRooms[sock]]
                 player == GetPlayer(room, sock)
             IN player.alive /\ IsExitPos(room, player.x, player.z)]_vars

(* C37: in every state each entry of a room's respawn queue names a player who is
   dead or has left the roster, and no two entries of a queue name the same
   player, so that processRespawns finds no living player to change.
   Violated: the bossKill handler sets alive = true for every player and leaves the
   queue as it is; the entry of a player killed in that round then names a living
   player, whom processRespawns moves in the next round. *)
C37_QueueNamesTheDead ==
    \A roomId \in DOMAIN rooms :
       LET room == rooms[roomId]
           queue == room.respawnQueue
       IN /\ \A i \in DOMAIN queue :
                HasPlayer(room, queue[i].playerId)
                => ~GetPlayer(room, queue[i].playerId).alive
          /\ \A i, j \in DOMAIN queue :
                queue[i].playerId = queue[j].playerId => i = j

(* C38: in every state every player of every room is alive exactly when its
   health is positive, and a dead player has health 0. *)
C38_AliveIffHealthy ==
    \A roomId \in DOMAIN rooms :
       \A i \in DOMAIN rooms[roomId].players :
          LET p == rooms[roomId].players[i]
          IN /\ p.alive <=> p.health > 0
             /\ ~p.alive => p.health = 0

(* a round has just been ended by bossKill in a room with a pending respawn: the
   player killed in that round is alive with full health again *)
C38_Witness ==
    /\ last.branch = "bossKill"
    /\ \E roomId \in DOMAIN rooms :
          LET room == rooms[roomId]
          IN \E i \in DOMAIN room.respawnQueue :
                /\ HasPlayer(room, room.respawnQueue[i].playerId)
                /\ GetPlayer(room, room.respawnQueue[i].playerId).alive
                /\ GetPlayer(room, room.respawnQueue[i].playerId).health = 100

(* (x, z) is inside the rectangle that the cells of maze cover *)
InsideMaze(maze, x, z) ==
    /\ 0 <= x /\ x < maze.cols * CELL_SIZE
    /\ 0 <= z /\ z < maze.rows * CELL_SIZE

(* C39: while a room is playing, no player of its roster stands on a position that
   isBlocked reports for the room's maze with the player's radius of 0.4, and
   every player stands inside the maze. *)
C39_PlayersStandFree ==
    \A roomId \in DOMAIN rooms :
       rooms[roomId].state = "playing"
       => \A i \in DOMAIN rooms[roomId].players :
             LET room == rooms[roomId]
                 p == room.players[i]
             IN /\ ~IsBlocked(room.maze, p.x, p.z, MoveRadius)
                /\ InsideMaze(room.maze, p.x, p.z)

(* a move has just been refused by the wall check, for a player who has advanced
   a level and has left the centre of the cell it was put on *)
C39_Witness ==
    /\ last.branch = "blocked"
    /\ InRoster(last.sock)
    /\ LET room == rooms[playerRooms[last.sock]]
           p == GetPlayer(room, last.sock)
       IN /\ room.state = "playing"
          /\ p.level > 0
          /\ [x |-> p.x, z |-> p.z]
                # CellToWorld(FloorDiv(p.z, CELL_SIZE), FloorDiv(p.x, CELL_SIZE))

(* C40: in every state every key of a roster is a connection that is connected, or
   a connection that presented a token for which a grace timer is pending.
   Violated: a reconnection with the token cancels the timer and rebinds nobody
   (addPlayer stores no persistentId); the player of the dropped connection stays
   in the roster with no connection and no timer, and nothing removes it. *)
C40_NoGhostPlayers ==
    \A roomId \in DOMAIN rooms :
       \A id \in PlayerIds(rooms[roomId]) :
          \/ id \in Connected(sockets)
          \/ /\ sockets[id].persistentId # Null
             /\ sockets[id].persistentId \in DOMAIN disconnectTimers

====
